---- MODULE Spec2Model ----
(***************************************************************************)
(* A model of the JazzScript bytecode interpreter: the Frame of            *)
(* src/src/vm/mod.rs (operand stack, PC, environment, save-stack, handler  *)
(* stack, active-functions stack) and the Value universe of                *)
(* src/src/vm/value.rs.  One action per opcode arm of Frame::execute.      *)
(*                                                                         *)
(* Representation.                                                         *)
(*   ValueData  a record tagged by t.  A Number is a rational num/den in   *)
(*              lowest terms with den > 0; den = 0 encodes the IEEE        *)
(*              specials (num = 0 NaN, num = 1 +inf, num = -1 -inf).       *)
(*              Signed zero and rounding are not represented.              *)
(*   Value      Ref<ValueData>: a record [cell, d]; cell is the identity   *)
(*              of the reference cell (what RefEq compares).               *)
(*   objects    the heap of Objects, indexed by reference; proto = 0 is    *)
(*              None; table is the insertion-ordered list of entries.      *)
(*   functions  the heap of Functions; yield_pos is <<>> (None) or <<p>>.  *)
(*   arrays     the heap of Arrays (sequences of Values).                  *)
(*   iterators  the heap of ValueIter (the Values still to be produced).   *)
(*   PC and all bytecode addresses are 0-based as in the source; the       *)
(*   instruction at address a is code[a + 1].                              *)
(***************************************************************************)
EXTENDS Integers, Sequences, FiniteSets, TLC

VARIABLES
    code,             \* Frame.code: the current bytecode
    constants,        \* Machine.constants: the current constant pool
    pc,               \* Frame.pc
    stack,            \* Frame.stack: the operand stack
    env,              \* Frame.env: reference of the current environment Object
    funs,             \* Frame.funs: the active-functions stack
    exec_stack,       \* Frame.exec_stack: the save-stack of ExecData
    exception_stack,  \* Frame.exception_stack: handler addresses
    cur_ins,          \* Frame.cur_ins: the instruction being executed
    objects,          \* heap: Ref<Object>
    functions,        \* heap: Ref<Function>
    arrays,           \* heap: Ref<Vec<Value>>
    iterators,        \* heap: Ref<ValueIter>
    cells,            \* number of Ref<ValueData> cells allocated so far
    status,           \* "running" | "done" (execute returned) | "exit" | "panic"
    exit_code         \* <<c>> once std::process::exit(c) was called, <<>> before

vars == <<code, constants, pc, stack, env, funs, exec_stack, exception_stack,
          cur_ins, objects, functions, arrays, iterators, cells, status, exit_code>>

(***************************************************************************)
(* Bounds of the enumerated inputs.                                        *)
(***************************************************************************)
MaxInt == 2

MaxCalls == 4

(***************************************************************************)
(* Small helpers on sequences.                                             *)
(***************************************************************************)
Last(s) == s[Len(s)]

Front(s) == SubSeq(s, 1, Len(s) - 1)

Abs(i) == IF i < 0 THEN -i ELSE i

RECURSIVE Gcd(_, _)
Gcd(a, b) == IF b = 0 THEN a ELSE Gcd(b, a % b)

RECURSIVE Pow2(_)
Pow2(k) == IF k = 0 THEN 1 ELSE 2 * Pow2(k - 1)

(***************************************************************************)
(* ValueData (value.rs enum ValueData, plus the Iterator variant that      *)
(* mod.rs matches on).                                                     *)
(***************************************************************************)
Nil == [t |-> "Nil"]

Undefined == [t |-> "Undefined"]

Bool(b) == [t |-> "Bool", b |-> b]

String(s) == [t |-> "String", s |-> s]

Object(r) == [t |-> "Object", ref |-> r]

Array(r) == [t |-> "Array", ref |-> r]

Function(r) == [t |-> "Function", ref |-> r]

Iterator(r) == [t |-> "Iterator", ref |-> r]

\* a rational in lowest terms; den = 0 keeps only the sign of num
Rat(n, d) ==
    IF d = 0
    THEN [t |-> "Number", num |-> (IF n > 0 THEN 1 ELSE IF n < 0 THEN -1 ELSE 0), den |-> 0]
    ELSE LET s == IF d < 0 THEN -1 ELSE 1
             g == Gcd(Abs(n), Abs(d))
         IN  [t |-> "Number", num |-> (s * n) \div g, den |-> (s * d) \div g]

\* into_num!: an integer as a Number
Number(i) == [t |-> "Number", num |-> i, den |-> 1]

NaN == [t |-> "Number", num |-> 0, den |-> 0]

IsNaN(x) == x.den = 0 /\ x.num = 0

IsInf(x) == x.den = 0 /\ x.num # 0

\* f64::floor on a finite Number
Floor(x) == x.num \div x.den

\* truncation toward zero of a finite Number
Trunc(x) == IF x.num >= 0 THEN x.num \div x.den ELSE -((-x.num) \div x.den)

(***************************************************************************)
(* f64 arithmetic on Numbers.                                              *)
(***************************************************************************)
NumAdd(x, y) ==
    IF IsNaN(x) \/ IsNaN(y) THEN NaN
    ELSE IF IsInf(x) /\ IsInf(y) THEN (IF x.num = y.num THEN x ELSE NaN)
    ELSE IF IsInf(x) THEN x
    ELSE IF IsInf(y) THEN y
    ELSE Rat(x.num * y.den + y.num * x.den, x.den * y.den)

NumNeg(x) == [t |-> "Number", num |-> -x.num, den |-> x.den]

NumSub(x, y) == NumAdd(x, NumNeg(y))

NumMul(x, y) ==
    IF IsNaN(x) \/ IsNaN(y) THEN NaN
    ELSE IF IsInf(x) \/ IsInf(y) THEN Rat(x.num * y.num, 0)
    ELSE Rat(x.num * y.num, x.den * y.den)

NumDiv(x, y) ==
    IF IsNaN(x) \/ IsNaN(y) THEN NaN
    ELSE IF IsInf(x) THEN (IF IsInf(y) THEN NaN
                           ELSE Rat(x.num * (IF y.num < 0 THEN -1 ELSE 1), 0))
    ELSE IF IsInf(y) THEN Number(0)
    ELSE Rat(x.num * y.den, x.den * y.num)

\* f64 %: the remainder has the sign of the dividend
NumRem(x, y) ==
    IF IsNaN(x) \/ IsNaN(y) \/ IsInf(x) THEN NaN
    ELSE IF IsInf(y) THEN x
    ELSE IF y.num = 0 THEN NaN
    ELSE NumSub(x, NumMul(y, Number(Trunc(NumDiv(x, y)))))

\* f64 partial order: every comparison with NaN is false
NumLt(x, y) ==
    IF IsNaN(x) \/ IsNaN(y) THEN FALSE
    ELSE IF IsInf(x) /\ IsInf(y) THEN x.num < y.num
    ELSE IF IsInf(x) THEN x.num < 0
    ELSE IF IsInf(y) THEN y.num > 0
    ELSE x.num * y.den < y.num * x.den

\* equality of representations, under which NaN equals itself
NumSame(x, y) == x = y

NumEq(x, y) == ~IsNaN(x) /\ ~IsNaN(y) /\ x.num = y.num /\ x.den = y.den

(***************************************************************************)
(* i64 bit operations on the floored operands.  Integers are two's         *)
(* complement, so a \div 2 (floor) is the arithmetic shift and a % 2 the   *)
(* low bit.  The shifts are defined for shift amounts 0..63; outside that  *)
(* range Rust's result depends on the build's overflow checks, and the     *)
(* enumerated operands stay inside it.                                     *)
(***************************************************************************)
RECURSIVE BitAnd64(_, _)
BitAnd64(a, b) ==
    IF a = 0 \/ b = 0 THEN 0
    ELSE IF a = -1 THEN b
    ELSE IF b = -1 THEN a
    ELSE (a % 2) * (b % 2) + 2 * BitAnd64(a \div 2, b \div 2)

RECURSIVE BitOr64(_, _)
BitOr64(a, b) ==
    IF a = 0 THEN b
    ELSE IF b = 0 THEN a
    ELSE IF a = -1 \/ b = -1 THEN -1
    ELSE (IF a % 2 = 1 \/ b % 2 = 1 THEN 1 ELSE 0) + 2 * BitOr64(a \div 2, b \div 2)

RECURSIVE BitXor64(_, _)
BitXor64(a, b) ==
    IF a = 0 THEN b
    ELSE IF b = 0 THEN a
    ELSE IF a = -1 THEN -b - 1
    ELSE IF b = -1 THEN -a - 1
    ELSE (IF a % 2 # b % 2 THEN 1 ELSE 0) + 2 * BitXor64(a \div 2, b \div 2)

Shl64(a, k) == a * Pow2(k)

Shr64(a, k) == a \div Pow2(k)

(***************************************************************************)
(* Coercions of value.rs.                                                  *)
(***************************************************************************)
\* impl From<ValueData> for bool
ToBool(x) ==
    CASE x.t = "Number" -> (IF x.den = 0 THEN TRUE ELSE Floor(x) # 0)
      [] x.t = "Bool" -> x.b
      [] x.t = "Nil" -> FALSE
      [] OTHER -> FALSE

\* the digits of r/d after the decimal point (r < d), at most k of them
RECURSIVE FracDigits(_, _, _)
FracDigits(r, d, k) ==
    IF r = 0 \/ k = 0 THEN ""
    ELSE ToString((10 * r) \div d) \o FracDigits((10 * r) % d, d, k - 1)

\* Display of an f64
NumDisplay(x) ==
    IF x.den = 0 THEN (IF x.num = 0 THEN "NaN" ELSE IF x.num > 0 THEN "inf" ELSE "-inf")
    ELSE IF x.den = 1 THEN ToString(x.num)
    ELSE (IF x.num < 0 THEN "-" ELSE "") \o ToString(Abs(x.num) \div x.den)
         \o "." \o FracDigits(Abs(x.num) % x.den, x.den, 16)

\* impl fmt::Display for ValueData, on the heaps objs and arrs
RECURSIVE Display(_, _, _)
RECURSIVE DisplayTable(_, _, _, _)
RECURSIVE DisplayArray(_, _, _, _)
DisplayTable(tb, i, objs, arrs) ==
    IF i > Len(tb) THEN ""
    ELSE Display(tb[i].key, objs, arrs) \o ": " \o Display(tb[i].val.d, objs, arrs)
         \o (IF i # Len(tb) THEN "," ELSE "") \o DisplayTable(tb, i + 1, objs, arrs)
DisplayArray(a, i, objs, arrs) ==
    IF i > Len(a) THEN ""
    ELSE Display(a[i].d, objs, arrs)
         \o (IF i # Len(a) THEN "," ELSE "") \o DisplayArray(a, i + 1, objs, arrs)
Display(x, objs, arrs) ==
    CASE x.t = "Bool" -> (IF x.b THEN "true" ELSE "false")
      [] x.t = "Number" -> NumDisplay(x)
      [] x.t = "Function" -> "<function>"
      [] x.t = "Nil" -> "nil"
      [] x.t = "Undefined" -> "undefined"
      [] x.t = "String" -> x.s
      [] x.t = "Object" -> "{" \o DisplayTable(objs[x.ref].table, 1, objs, arrs) \o "}"
      [] x.t = "Array" -> "[" \o DisplayArray(arrs[x.ref], 1, objs, arrs) \o "]"
      [] OTHER -> "<iterator>"

(***************************************************************************)
(* Equality and ordering of value.rs.                                      *)
(***************************************************************************)
\* impl PartialEq for ValueData / Object; tables and arrays compare in order
RECURSIVE DataEq(_, _, _, _)
RECURSIVE ObjectEq(_, _, _, _)
RECURSIVE TableEq(_, _, _, _, _)
RECURSIVE ArrayEq(_, _, _, _, _)
TableEq(ta, tb, i, objs, arrs) ==
    IF i > Len(ta) THEN TRUE
    ELSE /\ DataEq(ta[i].key, tb[i].key, objs, arrs)
         /\ DataEq(ta[i].val.d, tb[i].val.d, objs, arrs)
         /\ TableEq(ta, tb, i + 1, objs, arrs)
ArrayEq(a, b, i, objs, arrs) ==
    IF i > Len(a) THEN TRUE
    ELSE DataEq(a[i].d, b[i].d, objs, arrs) /\ ArrayEq(a, b, i + 1, objs, arrs)
ObjectEq(p, q, objs, arrs) ==
    /\ Len(objs[p].table) = Len(objs[q].table)
    /\ TableEq(objs[p].table, objs[q].table, 1, objs, arrs)
    /\ IF objs[p].proto # 0 /\ objs[q].proto # 0
       THEN ObjectEq(objs[p].proto, objs[q].proto, objs, arrs)
       ELSE objs[p].proto = 0 /\ objs[q].proto = 0
DataEq(x, y, objs, arrs) ==
    CASE x.t = "Number" /\ y.t = "Number" -> NumEq(x, y)
      [] x.t = "Nil" /\ y.t = "Nil" -> TRUE
      [] x.t = "Undefined" /\ y.t = "Undefined" -> TRUE
      [] x.t = "String" /\ y.t = "String" -> x.s = y.s
      [] x.t = "Object" /\ y.t = "Object" -> ObjectEq(x.ref, y.ref, objs, arrs)
      [] x.t = "Array" /\ y.t = "Array" ->
            /\ Len(arrs[x.ref]) = Len(arrs[y.ref])
            /\ ArrayEq(arrs[x.ref], arrs[y.ref], 1, objs, arrs)
      [] x.t = "Bool" /\ y.t = "Bool" -> x.b = y.b
      [] OTHER -> FALSE

\* byte order of the characters that occur in the enumerated strings
Alphabet == " 0123456789:<>JLR_abcdefghijklmnopqrstuvwxyz"

CharRank(c) == CHOOSE i \in 1..Len(Alphabet) : SubSeq(Alphabet, i, i) = c

\* str::partial_cmp: "lt", "eq" or "gt"
RECURSIVE StrCmp(_, _)
StrCmp(a, b) ==
    IF a = "" THEN (IF b = "" THEN "eq" ELSE "lt")
    ELSE IF b = "" THEN "gt"
    ELSE IF Head(a) = Head(b) THEN StrCmp(Tail(a), Tail(b))
    ELSE IF CharRank(Head(a)) < CharRank(Head(b)) THEN "lt" ELSE "gt"

IntCmp(a, b) == IF a < b THEN "lt" ELSE IF a > b THEN "gt" ELSE "eq"

\* impl PartialOrd for ValueData / Object: "lt", "eq", "gt" or "none"
RECURSIVE DataCmp(_, _, _, _)
RECURSIVE ArrayCmp(_, _, _, _, _)
RECURSIVE TableCmp(_, _, _, _, _)
ArrayCmp(a, b, i, objs, arrs) ==
    IF i > Len(a) \/ i > Len(b) THEN IntCmp(Len(a), Len(b))
    ELSE LET c == DataCmp(a[i].d, b[i].d, objs, arrs)
         IN  IF c = "eq" THEN ArrayCmp(a, b, i + 1, objs, arrs) ELSE c
TableCmp(ta, tb, i, objs, arrs) ==
    IF i > Len(ta) \/ i > Len(tb) THEN IntCmp(Len(ta), Len(tb))
    ELSE LET ck == DataCmp(ta[i].key, tb[i].key, objs, arrs)
             cv == DataCmp(ta[i].val.d, tb[i].val.d, objs, arrs)
         IN  IF ck # "eq" THEN ck
             ELSE IF cv # "eq" THEN cv
             ELSE TableCmp(ta, tb, i + 1, objs, arrs)
DataCmp(x, y, objs, arrs) ==
    CASE x.t = "Number" /\ y.t = "Number" ->
            (IF NumLt(x, y) THEN "lt" ELSE IF NumLt(y, x) THEN "gt"
             ELSE IF NumEq(x, y) THEN "eq" ELSE "none")
      [] x.t = "Array" /\ y.t = "Array" -> ArrayCmp(arrs[x.ref], arrs[y.ref], 1, objs, arrs)
      [] x.t = "Object" /\ y.t = "Object" ->
            TableCmp(objs[x.ref].table, objs[y.ref].table, 1, objs, arrs)
      [] x.t = "String" /\ y.t = "String" -> StrCmp(x.s, y.s)
      [] x.t = "Bool" /\ y.t = "Bool" ->
            (IF x.b = y.b THEN "eq" ELSE IF y.b THEN "lt" ELSE "gt")
      [] OTHER -> "none"

(***************************************************************************)
(* The operator algebra of value.rs (impl Add, Sub, ... for ValueData).    *)
(* Only Add on two Arrays allocates: ValAdd returns the result and the     *)
(* array heap after it.                                                    *)
(***************************************************************************)
ValAdd(x, y, objs, arrs) ==
    CASE x.t = "Number" /\ y.t = "Number" -> [d |-> NumAdd(x, y), arrs |-> arrs]
      [] x.t = "Array" /\ y.t = "Array" ->
            [d |-> Array(Len(arrs) + 1),
             arrs |-> Append(arrs, arrs[x.ref] \o arrs[y.ref])]
      [] x.t = "String" ->
            [d |-> String(x.s \o Display(y, objs, arrs)), arrs |-> arrs]
      [] x.t # "String" /\ y.t = "String" /\ ~(x.t = "Number" /\ y.t = "Number")
            /\ ~(x.t = "Array" /\ y.t = "Array") ->
            [d |-> String(Display(x, objs, arrs) \o y.s), arrs |-> arrs]
      [] OTHER -> [d |-> Undefined, arrs |-> arrs]

\* Sub that takes a Nil right-hand side for zero
ValSubNilAsZero(x, y) ==
    IF x.t = "Number" /\ y.t = "Number" THEN NumSub(x, y)
    ELSE IF x.t = "Number" /\ y.t = "Nil" THEN x
    ELSE Undefined

\* Sub with its operands exchanged
ValSubSwapped(x, y) ==
    IF x.t = "Number" /\ y.t = "Number" THEN NumSub(y, x) ELSE Undefined

ValSub(x, y) == IF x.t = "Number" /\ y.t = "Number" THEN NumSub(x, y) ELSE Undefined

ValMul(x, y) == IF x.t = "Number" /\ y.t = "Number" THEN NumMul(x, y) ELSE Undefined

ValDiv(x, y) == IF x.t = "Number" /\ y.t = "Number" THEN NumDiv(x, y) ELSE Undefined

ValRem(x, y) == IF x.t = "Number" /\ y.t = "Number" THEN NumRem(x, y) ELSE Undefined

ValShr(x, y) ==
    IF x.t = "Number" /\ y.t = "Number" THEN Number(Shr64(Floor(x), Floor(y)))
    ELSE Undefined

ValShl(x, y) ==
    IF x.t = "Number" /\ y.t = "Number" THEN Number(Shl64(Floor(x), Floor(y)))
    ELSE Undefined

ValBitXor(x, y) ==
    IF x.t = "Number" /\ y.t = "Number" THEN Number(BitXor64(Floor(x), Floor(y)))
    ELSE Undefined

ValBitAnd(x, y) ==
    IF x.t = "Number" /\ y.t = "Number" THEN Number(BitAnd64(Floor(x), Floor(y)))
    ELSE Undefined

ValBitOr(x, y) ==
    IF x.t = "Number" /\ y.t = "Number" THEN Number(BitOr64(Floor(x), Floor(y)))
    ELSE Undefined

BinaryOps == {"Add", "Sub", "Div", "Mul", "Rem", "Shl", "Shr", "BitAnd", "BitOr",
              "BitXor", "And", "Or", "Gt", "Ge", "Lt", "Le", "Eq", "Ne"}

\* the inner match of the binary-operator arm: lhs OP rhs as a ValueData,
\* with the array heap after it
BinaryResult(op, lhs, rhs, objs, arrs) ==
    LET c == DataCmp(lhs, rhs, objs, arrs)
        pure(d) == [d |-> d, arrs |-> arrs]
    IN  CASE op = "Add" -> ValAdd(lhs, rhs, objs, arrs)
          [] op = "Sub" -> pure(ValSub(lhs, rhs))
          [] op = "Div" -> pure(ValDiv(lhs, rhs))
          [] op = "Mul" -> pure(ValMul(lhs, rhs))
          [] op = "Rem" -> pure(ValRem(lhs, rhs))
          [] op = "Shl" -> pure(ValShl(lhs, rhs))
          [] op = "Shr" -> pure(ValShr(lhs, rhs))
          [] op = "BitAnd" -> pure(ValBitAnd(lhs, rhs))
          [] op = "BitOr" -> pure(ValBitOr(lhs, rhs))
          [] op = "BitXor" -> pure(ValBitXor(lhs, rhs))
          [] op = "And" -> pure(Bool(ToBool(lhs) /\ ToBool(rhs)))
          [] op = "Or" -> pure(Bool(ToBool(lhs) \/ ToBool(rhs)))
          [] op = "Gt" -> pure(Bool(c = "gt"))
          [] op = "Lt" -> pure(Bool(c = "lt"))
          [] op = "Le" -> pure(Bool(c \in {"lt", "eq"}))
          [] op = "Ge" -> pure(Bool(c \in {"gt", "eq"}))
          [] op = "Eq" -> pure(Bool(DataEq(lhs, rhs, objs, arrs)))
          [] op = "Ne" -> pure(Bool(~DataEq(lhs, rhs, objs, arrs)))

(***************************************************************************)
(* Objects and the environment chain (value.rs).                           *)
(***************************************************************************)
\* new_object(): proto None, empty table
EmptyObject == [proto |-> 0, table |-> <<>>]

\* the position of key in an insertion-ordered table, 0 when absent
TableIndex(tb, key, objs, arrs) ==
    IF \E i \in 1..Len(tb) : DataEq(tb[i].key, key, objs, arrs)
    THEN CHOOSE i \in 1..Len(tb) : DataEq(tb[i].key, key, objs, arrs)
    ELSE 0

RemoveAt(s, i) == SubSeq(s, 1, i - 1) \o SubSeq(s, i + 1, Len(s))

\* LinkedHashMap::insert: a new key goes to the back; an existing key gets
\* the new value and moves to the back
TableInsert(tb, key, val, objs, arrs) ==
    LET i == TableIndex(tb, key, objs, arrs)
    IN  Append(IF i = 0 THEN tb ELSE RemoveAt(tb, i), [key |-> key, val |-> val])

\* objs with key -> val inserted into the own table of object r
InsertInto(objs, r, key, val, arrs) ==
    [objs EXCEPT ![r].table = TableInsert(objs[r].table, key, val, objs, arrs)]

\* var_declared: key is in the scope's own table
var_declared(scope, key, objs, arrs) ==
    TableIndex(objs[scope].table, key, objs, arrs) # 0

\* the farthest scope on the prototype chain whose own table has key, 0 if none
RECURSIVE FarthestScope(_, _, _, _)
FarthestScope(scope, key, objs, arrs) ==
    LET up == IF objs[scope].proto # 0
              THEN FarthestScope(objs[scope].proto, key, objs, arrs) ELSE 0
    IN  IF up # 0 THEN up
        ELSE IF TableIndex(objs[scope].table, key, objs, arrs) # 0 THEN scope
        ELSE 0

\* the nearest scope on the prototype chain whose own table has key, 0 if none
RECURSIVE FindScope(_, _, _, _)
FindScope(scope, key, objs, arrs) ==
    IF var_declared(scope, key, objs, arrs) THEN scope
    ELSE IF objs[scope].proto # 0 THEN FindScope(objs[scope].proto, key, objs, arrs)
    ELSE 0

\* an error Object without the JLRuntimeError prototype
new_error_bare(h, line, err) ==
    LET object == Len(h.objs) + 1
        o1 == h.objs \o <<EmptyObject, EmptyObject>>
        o4 == InsertInto(o1, object, String("line"),
                         [cell |-> h.cells + 2, d |-> Number(line)], <<>>)
        o5 == InsertInto(o4, object, String("file"),
                         [cell |-> h.cells + 3, d |-> Nil], <<>>)
        o6 == InsertInto(o5, object, String("error"),
                         [cell |-> h.cells + 4, d |-> String(err)], <<>>)
    IN  [d |-> Object(object), objs |-> o6, cells |-> h.cells + 4]

\* new_error(line, None, err): the error Object and the heap after it;
\* h is [objs, cells]
new_error(h, line, err) ==
    LET object == Len(h.objs) + 1
        proto == Len(h.objs) + 2
        o1 == h.objs \o <<EmptyObject, EmptyObject>>
        o2 == InsertInto(o1, proto, String("__name__"),
                         [cell |-> h.cells + 1, d |-> String("JLRuntimeError")], <<>>)
        o3 == [o2 EXCEPT ![object].proto = proto]
        o4 == InsertInto(o3, object, String("line"),
                         [cell |-> h.cells + 2, d |-> Number(line)], <<>>)
        o5 == InsertInto(o4, object, String("file"),
                         [cell |-> h.cells + 3, d |-> Nil], <<>>)
        o6 == InsertInto(o5, object, String("error"),
                         [cell |-> h.cells + 4, d |-> String(err)], <<>>)
    IN  [d |-> Object(object), objs |-> o6, cells |-> h.cells + 4]

\* an assignment that always writes the own table of the given scope
set_in_current_scope(scope, key, val, objs, arrs) ==
    [ok |-> TRUE, objs |-> InsertInto(objs, scope, key, val, arrs)]

\* set_variable_in_scope: [ok, objs] or [ok, msg]
set_variable_in_scope(scope, key, val, objs, arrs) ==
    LET r == FindScope(scope, key, objs, arrs)
    IN  IF r # 0
        THEN [ok |-> TRUE, objs |-> InsertInto(objs, r, key, val, arrs)]
        ELSE [ok |-> FALSE,
              msg |-> "Variable '" \o Display(key, objs, arrs) \o "' not declared"]

\* a declaration that never refuses
declare_unchecked(scope, key, val, objs, arrs) ==
    [ok |-> TRUE, objs |-> InsertInto(objs, scope, key, val, arrs)]

\* declare_var: [ok, objs] or [ok, msg]
declare_var(scope, key, val, objs, arrs) ==
    IF var_declared(scope, key, objs, arrs)
    THEN [ok |-> FALSE,
          msg |-> "Variable '" \o Display(key, objs, arrs) \o "' already declared"]
    ELSE [ok |-> TRUE, objs |-> InsertInto(objs, scope, key, val, arrs)]

\* get_variable: [ok, val] or [ok, msg]
get_variable(scope, key, objs, arrs) ==
    LET r == FindScope(scope, key, objs, arrs)
    IN  IF r # 0
        THEN [ok |-> TRUE,
              val |-> objs[r].table[TableIndex(objs[r].table, key, objs, arrs)].val]
        ELSE [ok |-> FALSE,
              msg |-> "Variable '" \o Display(key, objs, arrs) \o "' not declared"]

\* a declaration that assigns wherever the name is visible
BindVisible(objs, scope, key, val, arrs) ==
    IF FindScope(scope, key, objs, arrs) # 0
    THEN set_variable_in_scope(scope, key, val, objs, arrs).objs
    ELSE declare_var(scope, key, val, objs, arrs).objs

\* the declare-or-overwrite rule of Call and Apply: the binding ends up in
\* the own table of scope either way
Bind(objs, scope, key, val, arrs) ==
    IF var_declared(scope, key, objs, arrs)
    THEN set_variable_in_scope(scope, key, val, objs, arrs).objs
    ELSE declare_var(scope, key, val, objs, arrs).objs

(***************************************************************************)
(* Opcodes.  An instruction is a record with its opcode name op and, when  *)
(* the opcode has one, an integer operand a or a name operand s.           *)
(***************************************************************************)
Op(o) == [op |-> o]

OpA(o, a) == [op |-> o, a |-> a]

OpS(o, s) == [op |-> o, s |-> s]

IntOperandOps == {"LoadConst", "LoadInt", "ConstructArray", "Jump", "JumpIf",
                  "JumpIfFalse", "Call", "PushCatch"}

NameOperandOps == {"LoadVar", "DeclVar", "StoreVar"}

\* {:?} of an Opcode
OpDebug(ins) ==
    IF ins.op \in IntOperandOps THEN ins.op \o "(" \o ToString(ins.a) \o ")"
    ELSE IF ins.op \in NameOperandOps THEN ins.op \o "(" \o ins.s \o ")"
    ELSE ins.op

\* the number of operands an instruction pops with Frame::pop
Needs(ins) ==
    CASE ins.op \in BinaryOps -> 2
      [] ins.op = "Call" -> 2 + ins.a
      [] ins.op = "Apply" -> 2
      [] ins.op \in {"Store"} -> 3
      [] ins.op \in {"Load", "RefEq", "RefNeq"} -> 2
      [] ins.op = "ConstructArray" -> ins.a
      [] ins.op \in {"NewIter", "IterHasNext", "IterNext", "DeclVar", "InitEnv", "Yield",
                     "StoreVar", "JumpIf", "JumpIfFalse", "Not", "Neg"} -> 1
      [] OTHER -> 0

(***************************************************************************)
(* The dispatch loop: fetch, and the two error macros of Frame::execute.   *)
(***************************************************************************)
\* while self.pc < self.code.borrow().len() with opcode o at PC
Fetch(o) == status = "running" /\ pc < Len(code) /\ code[pc + 1].op = o

Ins == code[pc + 1]

Heap == [objs |-> objects, cells |-> cells]

\* a transfer that puts back the operands the failing instruction popped:
\* the handler is entered with the error on top of the stack the instruction
\* started with
TransferRolledBack(stk, e, xc) ==
    /\ cur_ins' = Ins
    /\ objects' = e.objs
    /\ IF exception_stack # <<>>
       THEN /\ pc' = Last(exception_stack)
            /\ exception_stack' = Front(exception_stack)
            /\ stack' = Append(stack, [cell |-> e.cells + 1, d |-> e.d])
            /\ cells' = e.cells + 1
            /\ UNCHANGED <<status, exit_code>>
       ELSE /\ pc' = pc + 1
            /\ stack' = stack
            /\ cells' = e.cells
            /\ status' = "exit"
            /\ exit_code' = <<xc>>
            /\ UNCHANGED exception_stack

\* the Err arm of catch! and the body of throw!: with a handler registered,
\* pop it into PC and push the error; otherwise exit with code xc.  stk is
\* the operand stack at the moment of the failure, e the error with the
\* heap after its construction.
Transfer(stk, e, xc) ==
    /\ cur_ins' = Ins
    /\ objects' = e.objs
    /\ IF exception_stack # <<>>
       THEN /\ pc' = Last(exception_stack)
            /\ exception_stack' = Front(exception_stack)
            /\ stack' = Append(stk, [cell |-> e.cells + 1, d |-> e.d])
            /\ cells' = e.cells + 1
            /\ UNCHANGED <<status, exit_code>>
       ELSE /\ pc' = pc + 1
            /\ stack' = stk
            /\ cells' = e.cells
            /\ status' = "exit"
            /\ exit_code' = <<xc>>
            /\ UNCHANGED exception_stack

\* Frame::pop on an empty stack, under catch!
Underflow(stk) ==
    Transfer(stk, new_error(Heap, -1, "Stack empty. Current instruction: " \o OpDebug(Ins)), 1)

\* catch! of a failed environment operation (Position::new(0, 0))
CatchErr(stk, msg) == Transfer(stk, new_error(Heap, 0, msg), 1)

\* throw!(msg)
ThrowMacro(stk, msg) ==
    Transfer(stk, new_error(Heap, -1, "Runtime exception: " \o msg), -1)

\* a fatal condition reported like a failed environment operation
PanicRouted(stk) == CatchErr(stk, "No env to pop")

\* a panic (panic!, unreachable!, a failed index or unwrap) aborts the process
Panic(stk) ==
    /\ cur_ins' = Ins
    /\ pc' = pc + 1
    /\ stack' = stk
    /\ status' = "panic"
    /\ UNCHANGED <<exception_stack, exit_code, objects, cells>>

\* an instruction that completes: PC is already advanced, the stack is stk
Continue(stk) ==
    /\ cur_ins' = Ins
    /\ pc' = pc + 1
    /\ stack' = stk
    /\ UNCHANGED <<exception_stack, status, exit_code>>

callVars == <<code, constants, env, funs, exec_stack, functions>>

(***************************************************************************)
(* Stack primitives and variables.                                         *)
(***************************************************************************)
LoadConst ==
    /\ Fetch("LoadConst")
    /\ IF Ins.a + 1 \in 1..Len(constants)
       THEN /\ Continue(Append(stack, [cell |-> cells + 1, d |-> constants[Ins.a + 1]]))
            /\ cells' = cells + 1
            /\ UNCHANGED objects
       ELSE Panic(stack)
    /\ UNCHANGED <<callVars, arrays, iterators>>

LoadInt ==
    /\ Fetch("LoadInt")
    /\ Continue(Append(stack, [cell |-> cells + 1, d |-> Number(Ins.a)]))
    /\ cells' = cells + 1
    /\ UNCHANGED <<callVars, objects, arrays, iterators>>

LoadNil ==
    /\ Fetch("LoadNil")
    /\ Continue(Append(stack, [cell |-> cells + 1, d |-> Nil]))
    /\ cells' = cells + 1
    /\ UNCHANGED <<callVars, objects, arrays, iterators>>

\* LoadTrue, LoadFalse, LoadUndef: push(val)
LoadValue(o, d) ==
    /\ Fetch(o)
    /\ Continue(Append(stack, [cell |-> cells + 1, d |-> d]))
    /\ cells' = cells + 1
    /\ UNCHANGED <<callVars, objects, arrays, iterators>>

LoadTrue == LoadValue("LoadTrue", Bool(TRUE))

LoadFalse == LoadValue("LoadFalse", Bool(FALSE))

LoadUndef == LoadValue("LoadUndef", Undefined)

\* the result of Not: a Bool is inverted, a Number gives !(floor as i64) as
\* a Number (NaN floors to 0, an infinity saturates), Nil and Undefined give
\* true, everything else false
NotResult(d) ==
    CASE d.t = "Bool" -> Bool(~d.b)
      [] d.t = "Number" ->
            IF IsNaN(d) THEN Number(-1)
            ELSE IF IsInf(d) THEN (IF d.num > 0 THEN Number(-Pow2(63))
                                   ELSE Number(Pow2(63) - 1))
            ELSE Number(-Floor(d) - 1)
      [] d.t \in {"Undefined", "Nil"} -> Bool(TRUE)
      [] OTHER -> Bool(FALSE)

\* the result of Neg: -x for a Number, 0 for Nil, NaN otherwise
NegResult(d) ==
    CASE d.t = "Number" -> NumNeg(d)
      [] d.t = "Nil" -> Number(0)
      [] OTHER -> NaN

UnaryResult(o, d) == IF o = "Not" THEN NotResult(d) ELSE NegResult(d)

UnaryOp(o) ==
    /\ Fetch(o)
    /\ IF stack = <<>>
       THEN Underflow(<<>>)
       ELSE /\ Continue(Append(Front(stack), [cell |-> cells + 1, d |-> UnaryResult(o, Last(stack).d)]))
            /\ cells' = cells + 1
            /\ UNCHANGED objects
    /\ UNCHANGED <<callVars, arrays, iterators>>

Not == UnaryOp("Not")

Neg == UnaryOp("Neg")

LoadVar ==
    /\ Fetch("LoadVar")
    /\ LET r == get_variable(env, String(Ins.s), objects, arrays)
       IN  IF r.ok
           THEN Continue(Append(stack, r.val)) /\ UNCHANGED <<objects, cells>>
           ELSE CatchErr(stack, r.msg)
    /\ UNCHANGED <<callVars, arrays, iterators>>

DeclVar ==
    /\ Fetch("DeclVar")
    /\ IF stack = <<>>
       THEN Underflow(<<>>)
       ELSE /\ Continue(Front(stack))
            /\ objects' = Bind(objects, env, String(Ins.s), Last(stack), arrays)
            /\ UNCHANGED cells
    /\ UNCHANGED <<callVars, arrays, iterators>>

(***************************************************************************)
(* Control.                                                                *)
(***************************************************************************)
Jump ==
    /\ Fetch("Jump")
    /\ cur_ins' = Ins
    /\ pc' = Ins.a
    /\ UNCHANGED <<stack, exception_stack, status, exit_code, objects, cells,
                   callVars, arrays, iterators>>

\* a Label that drops the top of the operand stack
LabelDrops ==
    /\ Fetch("Label")
    /\ Continue(IF stack = <<>> THEN stack ELSE Front(stack))
    /\ UNCHANGED <<objects, cells, callVars, arrays, iterators>>

Label ==
    /\ Fetch("Label")
    /\ Continue(stack)
    /\ UNCHANGED <<objects, cells, callVars, arrays, iterators>>

\* the while condition fails: execute returns
Halt ==
    /\ status = "running"
    /\ pc >= Len(code)
    /\ status' = "done"
    /\ UNCHANGED <<code, constants, pc, stack, env, funs, exec_stack, exception_stack,
                   cur_ins, objects, functions, arrays, iterators, cells, exit_code>>

(***************************************************************************)
(* Binary operators.                                                       *)
(***************************************************************************)
\* let lhs = catch!(self.pop()); let rhs = catch!(self.pop());
\* the operands taken in the other order: the first pop as the right-hand side
SwappedOperands(stk) == [lhs |-> stk[Len(stk) - 1], rhs |-> stk[Len(stk)]]

BinaryOperands(stk) == [lhs |-> stk[Len(stk)], rhs |-> stk[Len(stk) - 1]]

BinaryOp ==
    /\ status = "running" /\ pc < Len(code) /\ Ins.op \in BinaryOps
    /\ IF Len(stack) < 2
       THEN Underflow(<<>>) /\ UNCHANGED arrays
       ELSE LET o == BinaryOperands(stack)
                r == BinaryResult(Ins.op, o.lhs.d, o.rhs.d, objects, arrays)
            IN  /\ Continue(Append(SubSeq(stack, 1, Len(stack) - 2),
                                   [cell |-> cells + 1, d |-> r.d]))
                /\ cells' = cells + 1
                /\ arrays' = r.arrs
                /\ UNCHANGED objects
    /\ UNCHANGED <<callVars, iterators>>

(***************************************************************************)
(* Exceptions.                                                             *)
(***************************************************************************)
PushCatch ==
    /\ Fetch("PushCatch")
    /\ cur_ins' = Ins
    /\ pc' = pc + 1
    /\ exception_stack' = Append(exception_stack, Ins.a)
    /\ UNCHANGED <<stack, status, exit_code, objects, cells, callVars, arrays, iterators>>

PopCatch ==
    /\ Fetch("PopCatch")
    /\ cur_ins' = Ins
    /\ pc' = pc + 1
    /\ exception_stack' = IF exception_stack = <<>> THEN <<>> ELSE Front(exception_stack)
    /\ UNCHANGED <<stack, status, exit_code, objects, cells, callVars, arrays, iterators>>

\* a Throw that loses its payload
ThrowUndefined(stk, ncells) == [cell |-> ncells + 1, d |-> Undefined]

\* the payload of Throw: the popped Value, or a fresh Undefined on an empty stack
ThrowPayload(stk, ncells) ==
    IF stk # <<>> THEN Last(stk) ELSE [cell |-> ncells + 1, d |-> Undefined]

\* an uncaught Throw exiting the way throw! does
ThrowExitsLikeMacro == <<-1>>

\* the exit code of an uncaught Throw
ThrowExitCode == <<1>>

Throw ==
    /\ Fetch("Throw")
    /\ LET error == ThrowPayload(stack, cells)
           rest == IF stack # <<>> THEN Front(stack) ELSE <<>>
       IN  /\ cur_ins' = Ins
           /\ cells' = IF stack # <<>> THEN cells ELSE cells + 1
           /\ IF exception_stack # <<>>
              THEN /\ pc' = Last(exception_stack)
                   /\ exception_stack' = Front(exception_stack)
                   /\ stack' = Append(rest, error)
                   /\ UNCHANGED <<status, exit_code>>
              ELSE /\ pc' = pc + 1
                   /\ stack' = rest
                   /\ status' = "exit"
                   /\ exit_code' = ThrowExitCode
                   /\ UNCHANGED exception_stack
    /\ UNCHANGED <<objects, callVars, arrays, iterators>>

(***************************************************************************)
(* Iterators.                                                              *)
(***************************************************************************)
\* the entries NewIter builds for an Object: one fresh Object per table
\* entry, with slots key and value; h is [objs, cells, values]
RECURSIVE IterEntries(_, _, _)
IterEntries(tb, i, h) ==
    IF i > Len(tb) THEN h
    ELSE LET entry == Len(h.objs) + 1
             o1 == Append(h.objs, EmptyObject)
             o2 == InsertInto(o1, entry, String("key"),
                              [cell |-> h.cells + 1, d |-> tb[i].key], <<>>)
             o3 == InsertInto(o2, entry, String("value"), tb[i].val, <<>>)
         IN  IterEntries(tb, i + 1,
                 [objs |-> o3, cells |-> h.cells + 2,
                  values |-> Append(h.values, [cell |-> h.cells + 2, d |-> Object(entry)])])

\* ValueIter::has_next
has_next(it) == Len(it) > 0

NewIter ==
    /\ Fetch("NewIter")
    /\ IF stack = <<>>
       THEN Underflow(<<>>) /\ UNCHANGED iterators
       ELSE LET value == Last(stack).d
                rest == Front(stack)
            IN  CASE value.t = "Object" ->
                       LET h == IterEntries(objects[value.ref].table, 1,
                                    [objs |-> objects, cells |-> cells, values |-> <<>>])
                       IN  /\ Continue(Append(rest, [cell |-> h.cells + 1,
                                                     d |-> Iterator(Len(iterators) + 1)]))
                           /\ iterators' = Append(iterators, h.values)
                           /\ objects' = h.objs
                           /\ cells' = h.cells + 1
                  [] value.t = "Array" ->
                       /\ Continue(Append(rest, [cell |-> cells + 1,
                                                 d |-> Iterator(Len(iterators) + 1)]))
                       /\ iterators' = Append(iterators, arrays[value.ref])
                       /\ cells' = cells + 1
                       /\ UNCHANGED objects
                  [] value.t = "Iterator" ->
                       /\ Continue(Append(rest, [cell |-> cells + 1, d |-> value]))
                       /\ cells' = cells + 1
                       /\ UNCHANGED <<objects, iterators>>
                  [] OTHER ->
                       /\ ThrowMacro(rest, "Array or object expected in iterator instance")
                       /\ UNCHANGED iterators
    /\ UNCHANGED <<callVars, arrays>>

IterHasNext ==
    /\ Fetch("IterHasNext")
    /\ IF stack = <<>>
       THEN Underflow(<<>>)
       ELSE IF Last(stack).d.t = "Iterator"
       THEN /\ Continue(Append(Front(stack),
                   [cell |-> cells + 1,
                    d |-> Bool(has_next(iterators[Last(stack).d.ref]))]))
            /\ cells' = cells + 1
            /\ UNCHANGED objects
       ELSE Panic(Front(stack))
    /\ UNCHANGED <<callVars, arrays, iterators>>

IterNext ==
    /\ Fetch("IterNext")
    /\ IF stack = <<>>
       THEN Underflow(<<>>) /\ UNCHANGED iterators
       ELSE IF Last(stack).d.t = "Iterator" /\ has_next(iterators[Last(stack).d.ref])
       THEN /\ Continue(Append(Front(stack), Head(iterators[Last(stack).d.ref])))
            /\ iterators' = [iterators EXCEPT ![Last(stack).d.ref] = Tail(@)]
            /\ UNCHANGED <<objects, cells>>
       ELSE Panic(Front(stack)) /\ UNCHANGED iterators
    /\ UNCHANGED <<callVars, arrays>>

(***************************************************************************)
(* The call protocol: save_state / restore_state, InitEnv, Call, Apply,    *)
(* Return, Yield.                                                          *)
(***************************************************************************)
\* a save_state that keeps the operand stack as it was before Call's pops
SavedWholeStack(stk, p) ==
    <<[k |-> "Stack", stack |-> stack],
      [k |-> "Code", code |-> code],
      [k |-> "Env", env |-> env],
      [k |-> "Pc", pc |-> p],
      [k |-> "C", c |-> constants]>>

\* save_state: Stack, Code, Env, Pc, C pushed in this order; stk and p are
\* the operand stack and the PC at the call
SavedState(stk, p) ==
    <<[k |-> "Stack", stack |-> stk],
      [k |-> "Code", code |-> code],
      [k |-> "Env", env |-> env],
      [k |-> "Pc", pc |-> p],
      [k |-> "C", c |-> constants]>>

\* restore_state pops C, Pc, Env, Code, Stack and panics on anything else
CanRestore(es) ==
    /\ Len(es) >= 5
    /\ es[Len(es)].k = "C"
    /\ es[Len(es) - 1].k = "Pc"
    /\ es[Len(es) - 2].k = "Env"
    /\ es[Len(es) - 3].k = "Code"
    /\ es[Len(es) - 4].k = "Stack"

\* restore_state followed by push_ref(val)
RestoreAndPush(val) ==
    LET n == Len(exec_stack)
    IN  /\ constants' = exec_stack[n].c
        /\ pc' = exec_stack[n - 1].pc
        /\ env' = exec_stack[n - 2].env
        /\ code' = exec_stack[n - 3].code
        /\ stack' = Append(exec_stack[n - 4].stack, val)
        /\ exec_stack' = SubSeq(exec_stack, 1, n - 5)

\* the formals bound in order in scope; h is [objs, cells]
RECURSIVE BindArgs(_, _, _, _, _)
BindArgs(h, scope, names, args, i) ==
    IF i > Len(names) THEN h
    ELSE LET given == i <= Len(args)
             val == IF given THEN args[i] ELSE [cell |-> h.cells + 1, d |-> Undefined]
         IN  BindArgs([objs |-> Bind(h.objs, scope, String(names[i]), val, arrays),
                       cells |-> IF given THEN h.cells ELSE h.cells + 1],
                      scope, names, args, i + 1)

\* a callee that runs in the environment of its caller
EntryInCallerEnv(f) ==
    [pc |-> IF f.yield_pos # <<>> THEN f.yield_pos[1] ELSE f.addr, env |-> env]

\* where a Regular callee f starts: its yield position with its yield
\* environment when it has one, its entry address with its captured
\* environment otherwise
EntryPoint(f) ==
    IF f.yield_pos # <<>>
    THEN [pc |-> f.yield_pos[1], env |-> f.yield_env]
    ELSE [pc |-> f.addr, env |-> f.environment]

\* the Function::Regular arm of Call and Apply; rest is the operand stack
\* after the pops, args the argument Values, h the heap [objs, cells] and
\* this the receiver bound last
EnterRegular(fref, rest, args, this, h) ==
    LET f == functions[fref]
        e == EntryPoint(f)
        b == BindArgs(h, f.environment, f.args, args, 1)
        arr == Len(arrays) + 1
        o1 == Bind(b.objs, f.environment, String("_args"),
                   [cell |-> b.cells + 1, d |-> Array(arr)], arrays)
        o2 == Bind(o1, f.environment, String("this"), this, arrays)
    IN  /\ cur_ins' = Ins
        /\ funs' = Append(funs, fref)
        /\ exec_stack' = exec_stack \o SavedState(rest, pc + 1)
        /\ pc' = e.pc
        /\ env' = e.env
        /\ code' = f.code
        /\ constants' = f.constants
        /\ stack' = rest
        /\ arrays' = Append(arrays, args)
        /\ objects' = o2
        /\ cells' = b.cells + 1
        /\ UNCHANGED <<functions, exception_stack, status, exit_code, iterators>>

\* an environment that is not linked to the current one
DetachedEnv(current) == [proto |-> 0, table |-> <<>>]

\* new_object() with set_obj_proto(env, self.env)
CapturedEnv(current) == [proto |-> current, table |-> <<>>]

InitEnv ==
    /\ Fetch("InitEnv")
    /\ IF stack = <<>>
       THEN Underflow(<<>>) /\ UNCHANGED functions
       ELSE LET fun == Last(stack).d
                new == Len(objects) + 1
            IN  IF fun.t = "Function"
                THEN /\ Continue(Append(Front(stack), [cell |-> cells + 1, d |-> fun]))
                     /\ cells' = cells + 1
                     /\ objects' = Append(objects, CapturedEnv(env))
                     /\ functions' = [functions EXCEPT ![fun.ref].environment = new,
                                                       ![fun.ref].constants = constants]
                ELSE ThrowMacro(Front(stack), "function expected") /\ UNCHANGED functions
    /\ UNCHANGED <<code, constants, env, funs, exec_stack, arrays, iterators>>

\* the argc arguments in the order in which they were pushed
PushedArgs(stk, argc) == [i \in 1..argc |-> stk[Len(stk) - argc + i]]

\* the argc arguments of Call in popping order; stk still holds them on top
PoppedArgs(stk, argc) == [i \in 1..argc |-> stk[Len(stk) + 1 - i]]

Call ==
    /\ Fetch("Call")
    /\ LET n == Len(stack)
           argc == Ins.a
       IN  IF n < 2 + argc
           THEN Underflow(<<>>) /\ UNCHANGED <<callVars, arrays, iterators>>
           ELSE LET function == stack[n]
                    this == stack[n - 1]
                    args == PoppedArgs(SubSeq(stack, 1, n - 2), argc)
                    rest == SubSeq(stack, 1, n - 2 - argc)
                IN  IF function.d.t = "Function"
                    THEN EnterRegular(function.d.ref, rest, args, this, Heap)
                    ELSE /\ ThrowMacro(rest, "function expected")
                         /\ UNCHANGED <<callVars, arrays, iterators>>

Apply ==
    /\ Fetch("Apply")
    /\ LET n == Len(stack)
       IN  IF n < 2
           THEN Underflow(<<>>) /\ UNCHANGED <<callVars, arrays, iterators>>
           ELSE LET function == stack[n]
                    args == stack[n - 1]
                    rest == SubSeq(stack, 1, n - 2)
                IN  IF args.d.t # "Array"
                    THEN /\ ThrowMacro(rest, "Array expected in apply")
                         /\ UNCHANGED <<callVars, arrays, iterators>>
                    ELSE IF function.d.t = "Function"
                    THEN EnterRegular(function.d.ref, rest, arrays[args.d.ref],
                             [cell |-> cells + 1, d |-> Object(Len(objects) + 1)],
                             [objs |-> Append(objects, EmptyObject), cells |-> cells + 1])
                    ELSE /\ ThrowMacro(rest, "function expected")
                         /\ UNCHANGED <<callVars, arrays, iterators>>

\* a Return that leaves the yield position in place
KeepYieldPos(fs, fns) == fns

\* what Return does to the active-functions stack: the yield position of
\* its top is cleared, then the top is popped
ReturnFunctions(fs, fns) ==
    IF fs = <<>> THEN fns ELSE [fns EXCEPT ![Last(fs)].yield_pos = <<>>]

Return ==
    /\ Fetch("Return")
    /\ LET return_ == IF stack # <<>> THEN Last(stack)
                      ELSE [cell |-> cells + 1, d |-> Undefined]
           rest == IF stack # <<>> THEN Front(stack) ELSE <<>>
       IN  /\ cur_ins' = Ins
           /\ cells' = IF stack # <<>> THEN cells ELSE cells + 1
           /\ IF exec_stack = <<>>
              THEN /\ status' = "done"
                   /\ pc' = pc + 1
                   /\ stack' = rest
                   /\ UNCHANGED callVars
              ELSE IF CanRestore(exec_stack)
              THEN /\ RestoreAndPush(return_)
                   /\ functions' = ReturnFunctions(funs, functions)
                   /\ funs' = IF funs = <<>> THEN <<>> ELSE Front(funs)
                   /\ UNCHANGED status
              ELSE /\ status' = "panic"
                   /\ pc' = pc + 1
                   /\ stack' = rest
                   /\ UNCHANGED callVars
    /\ UNCHANGED <<exception_stack, exit_code, objects, arrays, iterators>>

\* what Yield does to the active-functions stack
YieldFuns(fs) == fs

Yield ==
    /\ Fetch("Yield")
    /\ IF stack = <<>>
       THEN Underflow(<<>>) /\ UNCHANGED callVars
       ELSE IF funs = <<>>
       THEN ThrowMacro(Front(stack), "can not find function state") /\ UNCHANGED callVars
       ELSE /\ cur_ins' = Ins
            /\ functions' = [functions EXCEPT ![Last(funs)].yield_pos = <<pc + 1>>,
                                              ![Last(funs)].yield_env = env]
            /\ funs' = YieldFuns(funs)
            /\ IF CanRestore(exec_stack)
               THEN RestoreAndPush(Last(stack)) /\ UNCHANGED status
               ELSE /\ status' = "panic"
                    /\ pc' = pc + 1
                    /\ stack' = Front(stack)
                    /\ UNCHANGED <<code, constants, env, exec_stack>>
            /\ UNCHANGED <<exception_stack, exit_code, objects, cells>>
    /\ UNCHANGED <<arrays, iterators>>

(***************************************************************************)
(* Conditional jumps, reference identity, arrays and objects, scopes.      *)
(***************************************************************************)
\* JumpIf(to) and JumpIfFalse(to): pop, convert with bool::from, and jump
\* when the result is want
JumpOn(o, want) ==
    /\ Fetch(o)
    /\ IF stack = <<>>
       THEN Underflow(<<>>)
       ELSE /\ cur_ins' = Ins
            /\ pc' = IF ToBool(Last(stack).d) = want THEN Ins.a ELSE pc + 1
            /\ stack' = Front(stack)
            /\ UNCHANGED <<exception_stack, status, exit_code, objects, cells>>
    /\ UNCHANGED <<callVars, arrays, iterators>>

JumpIf == JumpOn("JumpIf", TRUE)

JumpIfFalse == JumpOn("JumpIfFalse", FALSE)

\* a comparison of the contents of the two cells
SameContents(x, y) == x.d = y.d

\* Arc::ptr_eq on the two popped Values
PtrEq(x, y) == x.cell = y.cell

\* RefEq and RefNeq: the result is want exactly when the cells are the same
RefCompare(o, want) ==
    /\ Fetch(o)
    /\ IF Len(stack) < 2
       THEN Underflow(<<>>)
       ELSE /\ Continue(Append(SubSeq(stack, 1, Len(stack) - 2),
                   [cell |-> cells + 1,
                    d |-> Bool(PtrEq(stack[Len(stack)], stack[Len(stack) - 1]) = want)]))
            /\ cells' = cells + 1
            /\ UNCHANGED objects
    /\ UNCHANGED <<callVars, arrays, iterators>>

RefEq == RefCompare("RefEq", TRUE)

RefNeq == RefCompare("RefNeq", FALSE)

Dup ==
    /\ Fetch("Dup")
    /\ LET val == IF stack # <<>> THEN Last(stack)
                  ELSE [cell |-> cells + 1, d |-> Undefined]
           rest == IF stack # <<>> THEN Front(stack) ELSE <<>>
       IN  /\ Continue(rest \o <<val, val>>)
           /\ cells' = IF stack # <<>> THEN cells ELSE cells + 1
    /\ UNCHANGED <<callVars, objects, arrays, iterators>>

\* the top n elements in pushing order
ElementsAsPushed(stk, n) == SubSeq(stk, Len(stk) - n + 1, Len(stk))

\* the elements of ConstructArray(n), in popping order
PoppedElements(stk, n) == [i \in 1..n |-> stk[Len(stk) + 1 - i]]

ConstructArray ==
    /\ Fetch("ConstructArray")
    /\ IF Len(stack) < Ins.a
       THEN Underflow(<<>>) /\ UNCHANGED arrays
       ELSE /\ Continue(Append(SubSeq(stack, 1, Len(stack) - Ins.a),
                   [cell |-> cells + 1, d |-> Array(Len(arrays) + 1)]))
            /\ arrays' = Append(arrays, PoppedElements(stack, Ins.a))
            /\ cells' = cells + 1
            /\ UNCHANGED objects
    /\ UNCHANGED <<callVars, iterators>>

NewObj ==
    /\ Fetch("NewObj")
    /\ Continue(Append(stack, [cell |-> cells + 1, d |-> Object(Len(objects) + 1)]))
    /\ objects' = Append(objects, EmptyObject)
    /\ cells' = cells + 1
    /\ UNCHANGED <<callVars, arrays, iterators>>

\* the 1-based position that array[i64::from(key) as usize] addresses in an
\* array of len elements, 0 when the assert or the index check panics:
\* a Number truncates toward zero (NaN gives 0), Nil and Undefined give 0,
\* every other key gives i64::MAX
ArraySlot(key, len) ==
    LET idx == IF key.t = "Number"
               THEN (IF IsNaN(key) THEN 0
                     ELSE IF IsInf(key) THEN -1
                     ELSE Trunc(key))
               ELSE IF key.t \in {"Nil", "Undefined"} THEN 0
               ELSE -1
    IN  IF 0 <= idx /\ idx < len THEN idx + 1 ELSE 0

\* Object::get: "__proto__" gives the prototype in a new cell, any other key
\* the slot of the own table, a miss Undefined in a new cell
ObjectGet(r, key, objs, arrs, n) ==
    LET i == TableIndex(objs[r].table, key, objs, arrs)
    IN  IF key = String("__proto__")
        THEN [panic |-> FALSE, cells |-> n + 1,
              val |-> [cell |-> n + 1,
                       d |-> IF objs[r].proto # 0 THEN Object(objs[r].proto)
                             ELSE Undefined]]
        ELSE IF i # 0
        THEN [panic |-> FALSE, cells |-> n, val |-> objs[r].table[i].val]
        ELSE [panic |-> FALSE, cells |-> n + 1,
              val |-> [cell |-> n + 1, d |-> Undefined]]

\* SetGet::get for ValueData: [panic, val, cells]
ValueGet(target, key, objs, arrs, fns, n) ==
    CASE target.t = "Function" ->
            ObjectGet(fns[target.ref].environment, key, objs, arrs, n)
      [] target.t = "Object" -> ObjectGet(target.ref, key, objs, arrs, n)
      [] target.t = "Array" ->
            LET a == arrs[target.ref]
            IN  IF key = String("length")
                THEN [panic |-> FALSE, cells |-> n + 1,
                      val |-> [cell |-> n + 1, d |-> Number(Len(a))]]
                ELSE IF ArraySlot(key, Len(a)) = 0
                THEN [panic |-> TRUE]
                ELSE [panic |-> FALSE, cells |-> n, val |-> a[ArraySlot(key, Len(a))]]
      [] OTHER -> [panic |-> FALSE, cells |-> n + 1,
                   val |-> [cell |-> n + 1, d |-> Undefined]]

\* a set that writes into a private copy of the target
ValueSetDetached(target, key, val, objs, arrs, fns, n) ==
    LET slot == [cell |-> n + 1, d |-> val]
    IN  CASE target.t = "Object" ->
                [panic |-> FALSE, arrs |-> arrs, cells |-> n + 1,
                 objs |-> InsertInto(Append(objs, objs[target.ref]),
                                     Len(objs) + 1, key, slot, arrs)]
          [] target.t = "Array" ->
                [panic |-> FALSE, objs |-> objs, cells |-> n + 1,
                 arrs |-> Append(arrs, arrs[target.ref])]
          [] OTHER -> [panic |-> FALSE, objs |-> objs, arrs |-> arrs, cells |-> n]

\* SetGet::set for ValueData: [panic, objs, arrs, cells]; the value goes
\* into a new cell
ValueSet(target, key, val, objs, arrs, fns, n) ==
    LET slot == [cell |-> n + 1, d |-> val]
    IN  CASE target.t = "Function" ->
                [panic |-> FALSE, arrs |-> arrs, cells |-> n + 1,
                 objs |-> InsertInto(objs, fns[target.ref].environment, key, slot, arrs)]
          [] target.t = "Object" ->
                [panic |-> FALSE, arrs |-> arrs, cells |-> n + 1,
                 objs |-> InsertInto(objs, target.ref, key, slot, arrs)]
          [] target.t = "Array" ->
                LET i == ArraySlot(key, Len(arrs[target.ref]))
                IN  IF i = 0 THEN [panic |-> TRUE]
                    ELSE [panic |-> FALSE, objs |-> objs, cells |-> n + 1,
                          arrs |-> [arrs EXCEPT ![target.ref][i] = slot]]
          [] OTHER -> [panic |-> FALSE, objs |-> objs, arrs |-> arrs, cells |-> n]

\* iterators that would follow a set on the Array they were made from: the
\* replaced element is replaced in them too
IteratorsFollowSet(its, target, key, arrs, after) ==
    IF target.t = "Array"
    THEN LET i == ArraySlot(key, Len(arrs[target.ref]))
         IN  [j \in DOMAIN its |->
                [k \in DOMAIN its[j] |->
                    IF its[j][k].cell = arrs[target.ref][i].cell
                    THEN after[target.ref][i] ELSE its[j][k]]]
    ELSE its

\* the ValueIters after a set that turned the arrays arrs into after: set
\* reaches the target's own vector or table only
IteratorsAfterSet(its, target, key, arrs, after) == its

\* the operands of Store as popped: value, key, then the target
StoreOperands(stk) ==
    [value |-> stk[Len(stk)], key |-> stk[Len(stk) - 1], object |-> stk[Len(stk) - 2]]

Store ==
    /\ Fetch("Store")
    /\ IF Len(stack) < 3
       THEN Underflow(<<>>) /\ UNCHANGED arrays
       ELSE LET o == StoreOperands(stack)
                rest == SubSeq(stack, 1, Len(stack) - 3)
                r == ValueSet(o.object.d, o.key.d, o.value.d,
                              objects, arrays, functions, cells)
            IN  IF r.panic
                THEN Panic(rest) /\ UNCHANGED arrays
                ELSE /\ Continue(rest)
                     /\ objects' = r.objs
                     /\ arrays' = r.arrs
                     /\ cells' = r.cells
    /\ iterators' =
          IF Len(stack) < 3 THEN iterators
          ELSE LET o == StoreOperands(stack)
                   r == ValueSet(o.object.d, o.key.d, o.value.d,
                                 objects, arrays, functions, cells)
               IN  IF r.panic THEN iterators
                   ELSE IteratorsAfterSet(iterators, o.object.d, o.key.d, arrays, r.arrs)
    /\ UNCHANGED callVars

Load ==
    /\ Fetch("Load")
    /\ IF Len(stack) < 2
       THEN Underflow(<<>>)
       ELSE LET key == stack[Len(stack)]
                object == stack[Len(stack) - 1]
                rest == SubSeq(stack, 1, Len(stack) - 2)
                r == ValueGet(object.d, key.d, objects, arrays, functions, cells)
            IN  IF r.panic
                THEN Panic(rest)
                ELSE /\ Continue(Append(rest, r.val))
                     /\ cells' = r.cells
                     /\ UNCHANGED objects
    /\ UNCHANGED <<callVars, arrays, iterators>>

StoreVar ==
    /\ Fetch("StoreVar")
    /\ IF stack = <<>>
       THEN Underflow(<<>>)
       ELSE LET r == set_variable_in_scope(env, String(Ins.s), Last(stack), objects, arrays)
            IN  IF r.ok
                THEN /\ Continue(Front(stack))
                     /\ objects' = r.objs
                     /\ UNCHANGED cells
                ELSE CatchErr(Front(stack), r.msg)
    /\ UNCHANGED <<callVars, arrays, iterators>>

\* Frame::push_env
PushEnv ==
    /\ Fetch("PushEnv")
    /\ Continue(stack)
    /\ objects' = Append(objects, [proto |-> env, table |-> <<>>])
    /\ env' = Len(objects) + 1
    /\ UNCHANGED <<code, constants, funs, exec_stack, functions, cells, arrays, iterators>>

\* Frame::pop_env
PopEnv ==
    /\ Fetch("PopEnv")
    /\ IF objects[env].proto = 0
       THEN Panic(stack) /\ UNCHANGED env
       ELSE /\ Continue(stack)
            /\ env' = objects[env].proto
            /\ UNCHANGED <<objects, cells>>
    /\ UNCHANGED <<code, constants, funs, exec_stack, functions, arrays, iterators>>

(***************************************************************************)
(* The programs the host loads.  A program is a code vector, a constant    *)
(* pool and the Regular Functions its constants refer to (entry address    *)
(* and formal names); Function(i) in a pool is the i-th of them.           *)
(***************************************************************************)
Operands ==
    {Number(i) : i \in -MaxInt..MaxInt}
        \cup {String("a"), Bool(TRUE), Bool(FALSE), Nil, Undefined}

\* the shifts are enumerated with in-range Number operands only
ShiftOperandsOk(op, a, b) ==
    (op \in {"Shl", "Shr"} /\ a.t = "Number" /\ b.t = "Number")
        => (a.num \in 0..63 /\ b.num \in 0..63)

\* push(a); push(b); OP
BinaryProgram(op, a, b) ==
    [code |-> <<OpA("LoadConst", 0), OpA("LoadConst", 1), Op(op)>>,
     constants |-> <<a, b>>,
     funcs |-> <<>>]

BinaryPrograms ==
    {BinaryProgram(t[1], t[2], t[3]) :
        t \in {u \in BinaryOps \X Operands \X Operands : ShiftOperandsOk(u[1], u[2], u[3])}}

\* scenario S1
S1Add == [code |-> <<OpA("LoadInt", 2), OpA("LoadInt", 3), Op("Add")>>,
          constants |-> <<>>, funcs |-> <<>>]

S1Sub == [code |-> <<OpA("LoadInt", 10), OpA("LoadInt", 3), Op("Sub")>>,
          constants |-> <<>>, funcs |-> <<>>]

\* Three functions and a main part that calls them by name in the order
\* calls.  g yields 10, yields 20, returns 30 (scenario S4); f calls g and
\* returns what that call produced; h returns 5.
\* the host program of the generator scenarios: a Jump over three function
\* bodies, then main
GBody == <<OpA("LoadInt", 10), Op("Yield"),
           OpA("LoadInt", 20), Op("Yield"),
           OpA("LoadInt", 30), Op("Return")>>

FBody == <<Op("LoadNil"), OpA("LoadConst", 0), OpA("Call", 0), Op("Return")>>

HBody == <<OpA("LoadInt", 5), Op("Return")>>

JumpOver(addr) == <<OpA("Jump", addr)>>

GAddr == Len(JumpOver(0))

FAddr == GAddr + Len(GBody)

HAddr == FAddr + Len(FBody)

MainAddr == HAddr + Len(HBody)

CallSite(name) == <<Op("LoadNil"), OpS("LoadVar", name), OpA("Call", 0)>>

RECURSIVE CallSites(_)
CallSites(calls) ==
    IF calls = <<>> THEN <<>> ELSE CallSite(Head(calls)) \o CallSites(Tail(calls))

CallProgram(calls) ==
    [code |->
        JumpOver(MainAddr) \o GBody \o FBody \o HBody
        \* main, at MainAddr: the three function literals, then the calls
        \o
        <<OpA("LoadConst", 0), Op("InitEnv"), OpS("DeclVar", "g"),
          OpA("LoadConst", 1), Op("InitEnv"), OpS("DeclVar", "f"),
          OpA("LoadConst", 2), Op("InitEnv"), OpS("DeclVar", "h")>>
        \o CallSites(calls),
     constants |-> <<Function(1), Function(2), Function(3)>>,
     funcs |-> <<[addr |-> GAddr, args |-> <<>>],
                 [addr |-> FAddr, args |-> <<>>],
                 [addr |-> HAddr, args |-> <<>>]>>]

CallSequences == UNION {[1..n -> {"f", "g", "h"}] : n \in 1..MaxCalls}

CallPrograms == {CallProgram(c) : c \in CallSequences}

\* Instruction sequences that fail (or throw) at their last instruction,
\* run with 0, 1 or 2 handlers registered.  The handlers are the last two
\* addresses of the code; the handler registered last is the first of them.
FaultBodies ==
    {<<Op("Add")>>,
     <<OpA("LoadInt", 1), Op("Add")>>,
     <<OpS("LoadVar", "x")>>,
     <<OpS("DeclVar", "x")>>,
     <<Op("LoadNil"), OpA("LoadInt", 1), OpA("Call", 0)>>,
     <<OpA("LoadInt", 7), Op("LoadNil"), OpA("LoadInt", 1), OpA("Call", 0)>>,
     <<OpA("LoadInt", 1), OpA("Call", 0)>>,
     <<Op("LoadNil"), OpA("LoadConst", 0), OpA("Call", 1)>>,
     <<OpA("LoadInt", 1), OpA("LoadConst", 0), Op("Apply")>>,
     <<OpA("LoadInt", 7), OpA("LoadInt", 1), OpA("LoadConst", 0), Op("Apply")>>,
     <<OpA("LoadConst", 0), Op("Apply")>>,
     <<OpA("LoadInt", 1), Op("NewIter")>>,
     <<OpA("LoadInt", 7), OpA("LoadConst", 1), Op("NewIter")>>,
     <<Op("NewIter")>>,
     <<OpA("LoadInt", 1), Op("IterHasNext")>>,
     <<Op("IterHasNext")>>,
     <<OpA("LoadInt", 1), Op("IterNext")>>,
     <<Op("IterNext")>>,
     <<OpA("LoadConst", 1), Op("Throw")>>,
     <<OpA("LoadInt", 7), OpA("LoadInt", 8), Op("Throw")>>,
     <<Op("Throw")>>,
     <<OpA("LoadInt", 1), Op("Yield")>>,
     <<Op("Yield")>>,
     <<OpA("LoadInt", 1), Op("InitEnv")>>,
     <<Op("InitEnv")>>,
     <<Op("PopCatch"), OpS("LoadVar", "x")>>,
     <<Op("PopCatch"), OpA("LoadConst", 1), Op("Throw")>>}

FaultProgram(nh, body) ==
    LET last == nh + Len(body) + 2
    IN  [code |-> [i \in 1..nh |-> OpA("PushCatch", last + 1 - i)]
                    \o body \o <<Op("Label"), Op("Label"), Op("Label")>>,
         constants |-> <<Function(1), String("oops")>>,
         funcs |-> <<[addr |-> 0, args |-> <<>>]>>]

FaultPrograms == {FaultProgram(nh, b) : nh \in 0..2, b \in FaultBodies}

\* scenario S5: PushCatch(100); Throw("oops"); ...; [100]: ...
S5 == [code |-> <<OpA("PushCatch", 100), OpA("LoadConst", 0), Op("Throw")>>
                    \o [i \in 1..98 |-> Op("Label")],
       constants |-> <<String("oops")>>,
       funcs |-> <<>>]

\* Programs that compute a value and branch on it: the result is 1 when
\* the jump is taken and 0 when it is not.
TruthConstants ==
    Operands \cup {Rat(1, 2), Rat(-1, 2), NaN, Function(1)}

\* instruction sequences that leave an Array, an Object or an Iterator
TruthBuilders ==
    {<<OpA("ConstructArray", 0)>>,
     <<OpA("LoadInt", 1), OpA("ConstructArray", 1)>>,
     <<Op("NewObj")>>,
     <<OpA("ConstructArray", 0), Op("NewIter")>>}

TruthProgram(prefix, pool, jump) ==
    [code |-> prefix \o <<OpA(jump, Len(prefix) + 3), OpA("LoadInt", 0),
                          OpA("Jump", Len(prefix) + 4), OpA("LoadInt", 1)>>,
     constants |-> pool,
     funcs |-> <<[addr |-> 0, args |-> <<>>]>>]

TruthPrograms ==
    {TruthProgram(<<OpA("LoadConst", 0)>>, <<v>>, j) :
        v \in TruthConstants, j \in {"JumpIf", "JumpIfFalse"}}
    \cup {TruthProgram(b, <<>>, j) : b \in TruthBuilders, j \in {"JumpIf", "JumpIfFalse"}}
    \cup {TruthProgram(<<>>, <<>>, j) : j \in {"JumpIf", "JumpIfFalse"}}

\* Programs that compute a value, duplicate it and compare it with itself.
\* The last builders leave an Array holding a Function and the error Object
\* of a caught failure (with own slots and a prototype).
ReflexBuilders ==
    {<<OpA("LoadConst", 0)>>} \cup TruthBuilders
        \cup {<<OpA("LoadInt", 1), OpA("LoadInt", 2), OpA("ConstructArray", 2)>>,
              <<OpA("LoadConst", 0), OpA("ConstructArray", 1)>>,
              <<OpA("PushCatch", 2), OpS("LoadVar", "x")>>}

ReflexProgram(prefix, v, op) ==
    [code |-> prefix \o <<Op("Dup"), Op(op)>>,
     constants |-> <<v>>,
     funcs |-> <<[addr |-> 0, args |-> <<>>]>>]

ReflexPrograms ==
    {ReflexProgram(b, v, op) :
        b \in ReflexBuilders, v \in {Number(1), NaN, Function(1)}, op \in {"Eq", "Ne"}}

\* Programs that build two values separately and compare them, by value or
\* by reference.  A value is a Number or an Array of Numbers.
ElementLists == UNION {[1..n -> 1..MaxInt] : n \in 0..2}

RECURSIVE LoadInts(_)
LoadInts(e) ==
    IF e = <<>> THEN <<>> ELSE <<OpA("LoadInt", Head(e))>> \o LoadInts(Tail(e))

ArrayBuilder(e) == LoadInts(e) \o <<OpA("ConstructArray", Len(e))>>

PairBuilders ==
    {ArrayBuilder(e) : e \in ElementLists} \cup {LoadInts(<<i>>) : i \in 1..MaxInt}

CompareOps == {"Eq", "Ne", "RefEq", "RefNeq"}

PairProgram(b1, b2, op) ==
    [code |-> b1 \o b2 \o <<Op(op)>>, constants |-> <<>>, funcs |-> <<>>]

PairPrograms ==
    {PairProgram(b1, b2, op) : b1 \in PairBuilders, b2 \in PairBuilders, op \in CompareOps}

\* the same cell twice: duplicated, or loaded twice from one variable
SameCellProgram(b, op) ==
    [code |-> b \o <<Op("Dup"), Op(op)>>, constants |-> <<>>, funcs |-> <<>>]

SameVarProgram(b, op) ==
    [code |-> b \o <<OpS("DeclVar", "x"), OpS("LoadVar", "x"), OpS("LoadVar", "x"), Op(op)>>,
     constants |-> <<>>, funcs |-> <<>>]

SameCellPrograms ==
    {SameCellProgram(b, op) : b \in PairBuilders, op \in {"RefEq", "RefNeq"}}
        \cup {SameVarProgram(b, op) : b \in PairBuilders, op \in {"RefEq", "RefNeq"}}

\* Programs whose callee has a code vector and a constant pool of its own.
\* main pushes k values, then argc arguments, the receiver and the callee,
\* calls it, and loads constant 0 of its own pool after the return.
CalleeBodies ==
    {<<Op("Return")>>,
     <<OpA("LoadInt", 9), Op("Return")>>,
     <<OpA("LoadInt", 9), OpA("LoadInt", 8), Op("Return")>>,
     <<OpS("DeclVar", "y"), OpA("LoadConst", 0), Op("Return")>>,
     <<Op("PushEnv"), OpA("LoadConst", 0), Op("Return")>>}

CallerValues(k) == [i \in 1..k |-> 8 - i]

RestoreProgram(k, argc, body) ==
    [code |-> LoadInts(CallerValues(k)) \o [i \in 1..argc |-> OpA("LoadInt", 5)]
                \o <<Op("LoadNil"), OpA("LoadConst", 0), OpA("Call", argc),
                     OpA("LoadConst", 0)>>,
     constants |-> <<Function(1)>>,
     funcs |-> <<[addr |-> 0, args |-> <<"a">>, code |-> body,
                  constants |-> <<Number(42)>>]>>]

RestorePrograms ==
    {RestoreProgram(k, argc, body) : k \in 0..2, argc \in 0..1, body \in CalleeBodies}

\* Programs that call one function of two formals twice, with argc1 and
\* then argc2 arguments and a receiver, from a scope that itself declares a
\* variable named like the first formal.  The function returns an Array of
\* what it finds bound.
ArgCounts == 0..3

ArgsBody ==
    <<OpS("LoadVar", "this"), OpS("LoadVar", "_args"), OpS("LoadVar", "b"),
      OpS("LoadVar", "a"), OpA("ConstructArray", 4), Op("Return")>>

ArgsCall(argc, base, receiver) ==
    [i \in 1..argc |-> OpA("LoadInt", base + i)]
        \o <<receiver, OpS("LoadVar", "f"), OpA("Call", argc)>>

ArgsProgram(argc1, argc2) ==
    [code |-> <<OpA("LoadInt", 0), OpS("DeclVar", "a"),
                OpA("LoadConst", 0), Op("InitEnv"), OpS("DeclVar", "f")>>
                \o ArgsCall(argc1, 10, OpA("LoadInt", 99))
                \o ArgsCall(argc2, 20, Op("LoadNil"))
                \o <<OpS("LoadVar", "a")>>,
     constants |-> <<Function(1)>>,
     funcs |-> <<[addr |-> 0, args |-> <<"a", "b">>, code |-> ArgsBody]>>]

ArgsPrograms == {ArgsProgram(m, n) : m \in ArgCounts, n \in ArgCounts}

\* Programs that apply the same function to an Array of n arguments
ApplyProgram(n) ==
    [code |-> [i \in 1..n |-> OpA("LoadInt", 10 + i)]
                \o <<OpA("ConstructArray", n), OpA("LoadConst", 0), Op("Apply")>>,
     constants |-> <<Function(1)>>,
     funcs |-> <<[addr |-> 0, args |-> <<"a", "b">>, code |-> ArgsBody]>>]

ApplyPrograms == {ApplyProgram(n) : n \in ArgCounts}

\* InitEnv twice on one Function, the second time in a pushed scope; and
\* InitEnv executed by a callee that has a constant pool of its own, on a
\* Function passed to it as argument
InitEnvTwice ==
    [code |-> <<OpA("LoadConst", 0), Op("InitEnv"), Op("PushEnv"), Op("InitEnv"),
                Op("PopEnv")>>,
     constants |-> <<Function(1)>>,
     funcs |-> <<[addr |-> 0, args |-> <<>>]>>]

InitEnvInCallee ==
    [code |-> <<OpA("LoadConst", 1), Op("LoadNil"), OpA("LoadConst", 0), OpA("Call", 1)>>,
     constants |-> <<Function(1), Function(2)>>,
     funcs |-> <<[addr |-> 0, args |-> <<"a">>,
                  code |-> <<OpS("LoadVar", "a"), Op("InitEnv"), Op("Return")>>,
                  constants |-> <<Number(42)>>],
                 [addr |-> 0, args |-> <<>>]>>]

\* scenario S3: f declares c = 0 and returns the nested function g, which
\* increments c and returns it; main calls f once and the returned g n times
ClosureProgram(n) ==
    [code |-> <<OpA("LoadConst", 0), Op("InitEnv"), OpS("DeclVar", "f"),
                Op("LoadNil"), OpS("LoadVar", "f"), OpA("Call", 0), OpS("DeclVar", "g")>>
                \o CallSites([i \in 1..n |-> "g"]),
     constants |-> <<Function(1), Function(2)>>,
     funcs |-> <<[addr |-> 0, args |-> <<>>,
                  code |-> <<OpA("LoadInt", 0), OpS("DeclVar", "c"),
                             OpA("LoadConst", 1), Op("InitEnv"), Op("Return")>>],
                 [addr |-> 0, args |-> <<>>,
                  code |-> <<OpS("LoadVar", "c"), OpA("LoadInt", 1), Op("Add"),
                             OpS("StoreVar", "c"), OpS("LoadVar", "c"), Op("Return")>>]>>]

ClosurePrograms == {ClosureProgram(n) : n \in 1..MaxCalls}

\* scenario S2 and its variants: optionally an outer declaration of x, then
\* depth nested scopes each declaring x, a LoadVar of x in the innermost,
\* the PopEnvs, and a LoadVar of x outside
ScopeProgram(outer, depth, v) ==
    [code |-> (IF outer THEN <<OpA("LoadInt", 5), OpS("DeclVar", "x")>> ELSE <<>>)
                \o [i \in 1..(3 * depth) |->
                       <<Op("PushEnv"), OpA("LoadInt", v + (i \div 3)), OpS("DeclVar", "x")>>
                           [((i - 1) % 3) + 1]]
                \o <<OpS("LoadVar", "x")>>
                \o [i \in 1..depth |-> Op("PopEnv")]
                \o <<OpS("LoadVar", "x")>>,
     constants |-> <<>>,
     funcs |-> <<>>]

ScopePrograms ==
    {ScopeProgram(o, dp, v) : o \in BOOLEAN, dp \in 1..2, v \in 1..MaxInt}

\* an assignment to x two scopes below the global one, with x declared in
\* the global scope (outer), in the scope between (mid), both or neither;
\* handler registers a handler at the end of the program
AssignProgram(outer, mid, handler) ==
    LET body == (IF outer THEN <<OpA("LoadInt", 5), OpS("DeclVar", "x")>> ELSE <<>>)
                \o <<Op("PushEnv")>>
                \o (IF mid THEN <<OpA("LoadInt", 6), OpS("DeclVar", "x")>> ELSE <<>>)
                \o <<Op("PushEnv"), OpA("LoadInt", 7), OpS("DeclVar", "y"),
                     OpA("LoadInt", 9), OpS("StoreVar", "x"), OpS("LoadVar", "x"),
                     Op("PopEnv"), Op("PopEnv"), OpS("LoadVar", "x")>>
    IN  [code |-> IF handler THEN <<OpA("PushCatch", Len(body) + 1)>> \o body
                  ELSE body,
         constants |-> <<>>,
         funcs |-> <<>>]

AssignPrograms ==
    {AssignProgram(o, m, h) : o \in BOOLEAN, m \in BOOLEAN, h \in BOOLEAN}

\* nh handlers registered at the end of the program, d scopes pushed, and
\* one PopEnv more than scopes pushed
PopEnvProgram(nh, d) ==
    [code |-> [i \in 1..nh |-> OpA("PushCatch", nh + d + d + 2)]
                \o [i \in 1..d |-> Op("PushEnv")]
                \o [i \in 1..(d + 1) |-> Op("PopEnv")]
                \o <<OpA("LoadInt", 1)>>,
     constants |-> <<>>,
     funcs |-> <<>>]

PopEnvPrograms == {PopEnvProgram(nh, d) : nh \in 0..2, d \in 0..2}

\* a Load of key on an Object that has a prototype: the error Object of a
\* caught failure (own slots line, file, error; __name__ in its prototype),
\* or a Function whose captured environment has the global scope, where x is
\* declared, as its prototype
LoadKeys == {"__name__", "error", "__proto__", "zz", "x"}

ChainLoadProgram(target, key) ==
    [code |-> (IF target = "error"
               THEN <<OpA("PushCatch", 2), OpS("LoadVar", "q")>>
               ELSE <<OpA("LoadInt", 5), OpS("DeclVar", "x"),
                      OpA("LoadConst", 1), Op("InitEnv")>>)
              \o <<OpA("LoadConst", 0), Op("Load")>>,
     constants |-> <<String(key), Function(1)>>,
     funcs |-> <<[addr |-> 0, args |-> <<>>]>>]

ChainLoadPrograms ==
    {ChainLoadProgram(t, k) : t \in {"error", "function"}, k \in LoadKeys}

\* a Load or a Store with key on an Array of n elements 7, 8, .. held in the
\* variable a, followed by a Load of "length"; handler registers a handler
\* at the end of the program
IndexKeys == {Number(-1), Number(0), Number(1), Number(2), Rat(-1, 2),
              String("length"), String("k"), Nil}

ArrayAccessProgram(handler, n, key, op) ==
    LET body == [i \in 1..n |-> OpA("LoadInt", 6 + i)]
                \o <<OpA("ConstructArray", n), OpS("DeclVar", "a"),
                     OpS("LoadVar", "a"), OpA("LoadConst", 0)>>
                \o (IF op = "Store" THEN <<OpA("LoadInt", 9)>> ELSE <<>>)
                \o <<Op(op), OpS("LoadVar", "a"), OpA("LoadConst", 1), Op("Load")>>
    IN  [code |-> IF handler THEN <<OpA("PushCatch", Len(body) + 1)>> \o body
                  ELSE body,
         constants |-> <<key, String("length")>>,
         funcs |-> <<>>]

ArrayAccessPrograms ==
    {ArrayAccessProgram(h, n, k, op) :
        h \in BOOLEAN, n \in 0..2, k \in IndexKeys, op \in {"Load", "Store"}}

\* a new Object held in the variable o, one Store per key of keys with the
\* values 1, 2, .., and a Load of the last key stored
StoreKeys == {"a", "b", "c"}
MaxStores == 3

StoreProgram(keys) ==
    [code |-> <<Op("NewObj"), OpS("DeclVar", "o")>>
                \o [i \in 1..(4 * Len(keys)) |->
                       <<OpS("LoadVar", "o"), OpA("LoadConst", (i - 1) \div 4),
                         OpA("LoadInt", ((i - 1) \div 4) + 1), Op("Store")>>
                           [((i - 1) % 4) + 1]]
                \o <<OpS("LoadVar", "o"), OpA("LoadConst", Len(keys) - 1), Op("Load")>>,
     constants |-> [i \in 1..Len(keys) |-> String(keys[i])],
     funcs |-> <<>>]

StorePrograms ==
    {StoreProgram(ks) : ks \in UNION {[1..n -> StoreKeys] : n \in 1..MaxStores}}

\* an Object or an Array of one element reachable through two names: two
\* variables p and q ("vars"), the variable p and a stack entry made by Dup
\* ("dup"), or the variable p and the slot s of another Object h ("slot").
\* The Store of 9 goes through one name and the Load through the other;
\* swap exchanges the two
AliasProgram(kind, alias, swap) ==
    LET build == IF kind = "Object" THEN <<Op("NewObj")>>
                 ELSE <<OpA("LoadInt", 7), OpA("ConstructArray", 1)>>
        key == IF kind = "Object" THEN OpA("LoadConst", 0) ELSE OpA("LoadInt", 0)
        viaP == <<OpS("LoadVar", "p")>>
        viaQ == <<OpS("LoadVar", "q")>>
        viaS == <<OpS("LoadVar", "h"), OpA("LoadConst", 1), Op("Load")>>
        store(name) == name \o <<key, OpA("LoadInt", 9), Op("Store")>>
        load(name) == name \o <<key, Op("Load")>>
    IN  [code |->
            CASE alias = "vars" ->
                    build \o <<OpS("DeclVar", "p"), OpS("LoadVar", "p"), OpS("DeclVar", "q")>>
                    \o (IF swap THEN store(viaQ) \o load(viaP)
                        ELSE store(viaP) \o load(viaQ))
              [] alias = "dup" ->
                    build \o <<Op("Dup"), OpS("DeclVar", "p")>>
                    \o (IF swap THEN <<key, OpA("LoadInt", 9), Op("Store")>> \o load(viaP)
                        ELSE store(viaP) \o <<key, Op("Load")>>)
              [] alias = "slot" ->
                    <<Op("NewObj"), OpS("DeclVar", "h")>>
                    \o build \o <<OpS("DeclVar", "p"), OpS("LoadVar", "h"),
                                  OpA("LoadConst", 1), OpS("LoadVar", "p"), Op("Store")>>
                    \o (IF swap THEN store(viaS) \o load(viaP)
                        ELSE store(viaP) \o load(viaS)),
         constants |-> <<String("k"), String("s")>>,
         funcs |-> <<>>]

AliasPrograms ==
    {AliasProgram(k, a, sw) : k \in {"Object", "Array"},
                              a \in {"vars", "dup", "slot"}, sw \in BOOLEAN}

\* the Stores of StoreProgram(keys), then an iterator over the Object held
\* in the variable it, one IterNext, a NewIter applied to the iterator and an
\* IterNext on its result
IterObjectProgram(keys) ==
    [code |-> SubSeq(StoreProgram(keys).code, 1, 2 + 4 * Len(keys))
                \o <<OpS("LoadVar", "o"), Op("NewIter"), OpS("DeclVar", "it"),
                     OpS("LoadVar", "it"), Op("IterNext"),
                     OpS("LoadVar", "it"), Op("NewIter"), Op("IterNext")>>,
     constants |-> StoreProgram(keys).constants,
     funcs |-> <<>>]

IterObjectPrograms ==
    {IterObjectProgram(ks) : ks \in UNION {[1..n -> StoreKeys] : n \in 1..MaxStores}}

\* scenario S6 and its variants: the Array a is built (last element pushed
\* first), an iterator over it is kept in the variable it, and the loop
\* Dup; IterHasNext; JumpIfFalse end; IterNext runs until IterHasNext is false
IterationProgram(a) ==
    LET build == [i \in 1..Len(a) |-> OpA("LoadInt", a[Len(a) + 1 - i])]
                 \o <<OpA("ConstructArray", Len(a)), Op("NewIter"), OpS("DeclVar", "it")>>
        loop == Len(build)
    IN  [code |-> build \o <<OpS("LoadVar", "it"), Op("Dup"), Op("IterHasNext"),
                             OpA("JumpIfFalse", loop + 6), Op("IterNext"),
                             OpA("Jump", loop)>>,
         constants |-> <<>>,
         funcs |-> <<>>]

S6 == IterationProgram(<<7, 8, 9>>)

IterationPrograms == {IterationProgram(a) : a \in ElementLists} \cup {S6}

\* the calls of CallProgram(calls) followed by a Yield at top level, with a
\* handler registered at the end of the program when handler is TRUE
TopYieldProgram(calls, handler) ==
    LET before == CallProgram(calls).code
    IN  [code |-> before
                  \o (IF handler THEN <<OpA("PushCatch", Len(before) + 3)>> ELSE <<>>)
                  \o <<OpA("LoadInt", 1), Op("Yield")>>,
         constants |-> CallProgram(calls).constants,
         funcs |-> CallProgram(calls).funcs]

TopYieldPrograms ==
    {TopYieldProgram(c, h) : c \in UNION {[1..n -> {"f", "g", "h"}] : n \in 0..2},
                             h \in BOOLEAN}

\* the instructions that take operands with Frame::pop, and Dup
OperandOps ==
    {OpS("DeclVar", "x"), OpS("StoreVar", "x"), OpA("JumpIf", 0), OpA("JumpIfFalse", 0),
     Op("RefEq"), Op("RefNeq"), Op("Add"), Op("Eq"), Op("Not"), Op("Neg"),
     Op("NewIter"), Op("IterHasNext"), Op("IterNext"), Op("InitEnv"), Op("Yield"),
     OpA("Call", 0), OpA("Call", 1), Op("Apply"), Op("Store"), Op("Load"),
     OpA("ConstructArray", 2), Op("Dup")}

\* the number of operands ins takes
OperandsNeeded(ins) == IF ins.op = "Dup" THEN 1 ELSE Needs(ins)

\* k operands, fewer than ins takes, then ins; handler registers a handler
\* at the end of the program
ShortProgram(ins, k, handler) ==
    [code |-> (IF handler THEN <<OpA("PushCatch", k + 2)>> ELSE <<>>)
                \o [i \in 1..k |->
                       <<Op("LoadTrue"), Op("LoadFalse"), Op("LoadUndef")>>[i]]
                \o <<ins>>,
     constants |-> <<>>,
     funcs |-> <<>>]

ShortPrograms ==
    UNION {{ShortProgram(ins, k, h) :
               k \in {n \in 0..2 : n < OperandsNeeded(ins)}, h \in BOOLEAN} :
           ins \in OperandOps}

\* every binary operator on two separately built operands, among them
\* Arrays and Objects: the first builder's value is the right-hand side
MixedBuilders ==
    {ArrayBuilder(<<1>>), ArrayBuilder(<<2>>), <<Op("NewObj")>>, <<OpA("LoadInt", 1)>>,
     <<Op("LoadNil")>>, <<OpA("LoadConst", 0)>>}

MixedProgram(b1, b2, op) ==
    [code |-> b1 \o b2 \o <<Op(op)>>, constants |-> <<String("a")>>, funcs |-> <<>>]

MixedPrograms ==
    {MixedProgram(b1, b2, op) : b1 \in MixedBuilders, b2 \in MixedBuilders, op \in BinaryOps}

\* a program with one Label inserted as instruction k (0-based): the
\* instructions from k on move up by one, and so do the jump, handler and
\* entry addresses above k; address k itself now designates the Label
MovedAddress(a, k) == IF a > k THEN a + 1 ELSE a

AddressOps == {"Jump", "JumpIf", "JumpIfFalse", "PushCatch"}

MovedIns(ins, k) ==
    IF ins.op \in AddressOps THEN OpA(ins.op, MovedAddress(ins.a, k)) ELSE ins

Labelled(p, k) ==
    [code |-> [i \in 1..k |-> MovedIns(p.code[i], k)]
                \o <<Op("Label")>>
                \o [i \in 1..(Len(p.code) - k) |-> MovedIns(p.code[k + i], k)],
     constants |-> p.constants,
     funcs |-> [i \in 1..Len(p.funcs) |->
                   [addr |-> MovedAddress(p.funcs[i].addr, k), args |-> p.funcs[i].args]]]

\* the programs Labels are inserted into: the loop of S6, calls of the
\* generator g and of f, and a Throw under a handler
LabelBases ==
    {S6, CallProgram(<<"g", "f">>), FaultProgram(1, <<OpA("LoadConst", 1), Op("Throw")>>)}

LabelledPrograms == UNION {{Labelled(p, k) : k \in 0..Len(p.code)} : p \in LabelBases}

\* a source s, an iterator it over it, a change of the source after `taken`
\* elements have been taken, then the remaining elements and a last
\* IterHasNext.  The Array is [1, 2]; the Object is {a: 1, b: 2} and each of
\* its entries is replaced on the stack by its "value" slot.
SnapshotConstants == <<String("a"), String("b"), String("c"), String("value")>>

SnapshotBuild(kind) ==
    IF kind = "Array"
    THEN <<OpA("LoadInt", 2), OpA("LoadInt", 1), OpA("ConstructArray", 2), OpS("DeclVar", "s")>>
    ELSE <<Op("NewObj"), OpS("DeclVar", "s"),
           OpS("LoadVar", "s"), OpA("LoadConst", 0), OpA("LoadInt", 1), Op("Store"),
           OpS("LoadVar", "s"), OpA("LoadConst", 1), OpA("LoadInt", 2), Op("Store")>>

SnapshotTake(kind) ==
    <<OpS("LoadVar", "it"), Op("IterNext")>>
        \o (IF kind = "Array" THEN <<>> ELSE <<OpA("LoadConst", 3), Op("Load")>>)

SnapshotChange(kind, change) ==
    LET key == IF kind = "Array"
               THEN OpA("LoadInt", IF change = "first" THEN 0 ELSE 1)
               ELSE OpA("LoadConst", IF change = "first" THEN 0
                                     ELSE IF change = "second" THEN 1 ELSE 2)
    IN  IF change = "none" THEN <<>>
        ELSE <<OpS("LoadVar", "s"), key, OpA("LoadInt", 9), Op("Store")>>

SnapshotProgram(kind, change, taken) ==
    [code |-> SnapshotBuild(kind)
                \o <<OpS("LoadVar", "s"), Op("NewIter"), OpS("DeclVar", "it")>>
                \o (IF taken >= 1 THEN SnapshotTake(kind) ELSE <<>>)
                \o (IF taken >= 2 THEN SnapshotTake(kind) ELSE <<>>)
                \o SnapshotChange(kind, change)
                \o (IF taken < 1 THEN SnapshotTake(kind) ELSE <<>>)
                \o (IF taken < 2 THEN SnapshotTake(kind) ELSE <<>>)
                \o <<OpS("LoadVar", "it"), Op("IterHasNext")>>,
     constants |-> SnapshotConstants,
     funcs |-> <<>>]

SnapshotPrograms ==
    {SnapshotProgram("Array", c, t) : c \in {"none", "first", "second"}, t \in 0..2}
        \cup {SnapshotProgram("Object", c, t) :
                 c \in {"none", "first", "second", "new"}, t \in 0..2}

\* main registers a handler and calls a Function that has a code vector
\* and a constant pool of its own and fails in its body: by an undeclared
\* variable or by a Throw.  The handler, at address 5 of main, pushes 2; the
\* longer bodies have instructions of their own at address 5.
CallerCatchMain ==
    <<OpA("PushCatch", 5), Op("LoadNil"), OpA("LoadConst", 0), OpA("Call", 0),
      OpA("LoadInt", 1), OpA("LoadInt", 2)>>

CallerCatchTail == <<Op("Label"), Op("Label"), Op("Label"), OpA("LoadInt", 3), Op("Return")>>

CallerCatchBodies ==
    {<<Op("Label"), OpS("LoadVar", "zz")>>,
     <<OpA("LoadConst", 0), Op("Throw")>>,
     <<Op("Label"), OpS("LoadVar", "zz")>> \o CallerCatchTail,
     <<OpA("LoadConst", 0), Op("Throw")>> \o CallerCatchTail}

CallerCatchProgram(body) ==
    [code |-> CallerCatchMain,
     constants |-> <<Function(1)>>,
     funcs |-> <<[addr |-> 0, args |-> <<>>, code |-> body,
                  constants |-> <<String("oops")>>]>>]

CallerCatchPrograms == {CallerCatchProgram(b) : b \in CallerCatchBodies}

\* x declared twice in one scope, the global one or a pushed one (scoped),
\* with or without a declaration of x in the scope above (outer); handler
\* registers a handler at the end of the program
RedeclareProgram(outer, scoped, handler) ==
    LET body == (IF outer THEN <<OpA("LoadInt", 5), OpS("DeclVar", "x"), Op("PushEnv")>>
                 ELSE <<>>)
                \o (IF scoped THEN <<Op("PushEnv")>> ELSE <<>>)
                \o <<OpA("LoadInt", 1), OpS("DeclVar", "x"), OpA("LoadInt", 4),
                     OpS("DeclVar", "w"), OpA("LoadInt", 2), OpS("DeclVar", "x"),
                     OpS("LoadVar", "x")>>
    IN  [code |-> IF handler THEN <<OpA("PushCatch", Len(body) + 1)>> \o body ELSE body,
         constants |-> <<>>,
         funcs |-> <<>>]

RedeclarePrograms ==
    {RedeclareProgram(o, s, h) : o \in BOOLEAN, s \in BOOLEAN, h \in BOOLEAN}

\* one Function f(a), made by InitEnv and declared as f in the global scope.
\* KeepsVariable calls it twice: f(true) declares v = 7 and returns 0;
\* f(false) reads v.  Recursion calls f(true) with receiver 99: it calls
\* f(false) with receiver Nil, which returns 0, and then returns the Array
\* of this, a and the inner result as it finds them.
KeepsVariableBody ==
    <<OpS("LoadVar", "a"), OpA("JumpIfFalse", 6),
      OpA("LoadInt", 7), OpS("DeclVar", "v"), OpA("LoadInt", 0), Op("Return"),
      OpS("LoadVar", "v"), Op("Return")>>

RecursionBody ==
    <<OpS("LoadVar", "a"), OpA("JumpIfFalse", 10),
      Op("LoadFalse"), Op("LoadNil"), OpS("LoadVar", "f"), OpA("Call", 1),
      OpS("LoadVar", "a"), OpS("LoadVar", "this"), OpA("ConstructArray", 3), Op("Return"),
      OpA("LoadInt", 0), Op("Return")>>

SharedEnvProgram(body, calls) ==
    [code |-> <<OpA("LoadConst", 0), Op("InitEnv"), OpS("DeclVar", "f")>> \o calls,
     constants |-> <<Function(1)>>,
     funcs |-> <<[addr |-> 0, args |-> <<"a">>, code |-> body, constants |-> <<>>]>>]

KeepsVariable ==
    SharedEnvProgram(KeepsVariableBody,
        <<Op("LoadTrue"), Op("LoadNil"), OpS("LoadVar", "f"), OpA("Call", 1),
          Op("LoadFalse"), Op("LoadNil"), OpS("LoadVar", "f"), OpA("Call", 1)>>)

Recursion ==
    SharedEnvProgram(RecursionBody,
        <<Op("LoadTrue"), OpA("LoadInt", 99), OpS("LoadVar", "f"), OpA("Call", 1)>>)

\* Not and Neg applied to a constant
UnaryOperands ==
    {Bool(TRUE), Bool(FALSE), Nil, Undefined, String("s"), NaN, Rat(-1, 2)}
        \cup {Number(i) : i \in (-MaxInt)..MaxInt}

UnaryProgram(o, d) ==
    [code |-> <<OpA("LoadConst", 0), Op(o)>>, constants |-> <<d>>, funcs |-> <<>>]

UnaryPrograms == {UnaryProgram(o, d) : o \in {"Not", "Neg"}, d \in UnaryOperands}

Programs ==
    BinaryPrograms \cup {S1Add, S1Sub} \cup CallPrograms \cup FaultPrograms \cup {S5}
        \cup TruthPrograms \cup ReflexPrograms \cup PairPrograms \cup SameCellPrograms
        \cup RestorePrograms \cup ArgsPrograms \cup ApplyPrograms
        \cup {InitEnvTwice, InitEnvInCallee} \cup ClosurePrograms
        \cup ScopePrograms
        \cup AssignPrograms
        \cup PopEnvPrograms
        \cup ChainLoadPrograms
        \cup ArrayAccessPrograms
        \cup StorePrograms
        \cup AliasPrograms
        \cup IterObjectPrograms
        \cup IterationPrograms
        \cup TopYieldPrograms
        \cup ShortPrograms
        \cup UnaryPrograms
        \cup MixedPrograms
        \cup LabelledPrograms
        \cup SnapshotPrograms
        \cup CallerCatchPrograms
        \cup RedeclarePrograms
        \cup {KeepsVariable, Recursion}

(***************************************************************************)
(* The specification.  Init is Machine::new and Frame::new followed by the *)
(* host installing a program: its constants, its code, and its Functions,  *)
(* each with an environment of its own and no yield position.              *)
(***************************************************************************)
Init ==
    \E p \in Programs :
        /\ code = p.code
        /\ constants = p.constants
        /\ pc = 0
        /\ stack = <<>>
        /\ env = 1
        /\ funs = <<>>
        /\ exec_stack = <<>>
        /\ exception_stack = <<>>
        /\ cur_ins = Op("BlockEnd")
        /\ objects = [i \in 1..(1 + Len(p.funcs)) |-> EmptyObject]
        /\ functions = [i \in 1..Len(p.funcs) |->
                           [environment |-> 1 + i,
                            code |-> IF "code" \in DOMAIN p.funcs[i]
                                     THEN p.funcs[i].code ELSE p.code,
                            addr |-> p.funcs[i].addr,
                            yield_pos |-> <<>>,
                            yield_env |-> 1 + i,
                            args |-> p.funcs[i].args,
                            constants |-> IF "constants" \in DOMAIN p.funcs[i]
                                          THEN p.funcs[i].constants ELSE p.constants]]
        /\ arrays = <<>>
        /\ iterators = <<>>
        /\ cells = 0
        /\ status = "running"
        /\ exit_code = <<>>

Next ==
    \/ LoadConst
    \/ LoadInt
    \/ LoadNil
    \/ LoadVar
    \/ DeclVar
    \/ Jump
    \/ Label
    \/ BinaryOp
    \/ PushCatch
    \/ PopCatch
    \/ Throw
    \/ NewIter
    \/ IterHasNext
    \/ IterNext
    \/ InitEnv
    \/ Call
    \/ Apply
    \/ Return
    \/ Yield
    \/ JumpIf
    \/ JumpIfFalse
    \/ RefEq
    \/ RefNeq
    \/ Dup
    \/ ConstructArray
    \/ NewObj
    \/ StoreVar
    \/ PushEnv
    \/ PopEnv
    \/ Store
    \/ Load
    \/ LoadTrue
    \/ LoadFalse
    \/ LoadUndef
    \/ Not
    \/ Neg
    \/ Halt

Spec == Init /\ [][Next]_vars

(***************************************************************************)
(* declare_var on its own (value.rs 346-363).  The interpreter tests       *)
(* var_declared before every call, so the refusing branch is exercised     *)
(* here by calling declare_var directly on the scopes of a chain of        *)
(* DeclDepth environments, as left by DeclDepth - 1 PushEnv instructions.  *)
(***************************************************************************)
DeclDepth == 2
DeclKeys == {"x", "y"}
DeclValues == {Nil, Bool(TRUE)}

DeclareInit ==
    /\ code = <<>>
    /\ constants = <<>>
    /\ pc = 0
    /\ stack = <<>>
    /\ env = DeclDepth
    /\ funs = <<>>
    /\ exec_stack = <<>>
    /\ exception_stack = <<>>
    /\ cur_ins = Op("BlockEnd")
    /\ objects = [i \in 1..DeclDepth |-> [proto |-> i - 1, table |-> <<>>]]
    /\ functions = <<>>
    /\ arrays = <<>>
    /\ iterators = <<>>
    /\ cells = 0
    /\ status = "running"
    /\ exit_code = <<>>

\* declare_var(scope, k, v, pos): Ok(()) after the insertion, or Err(e) with
\* e the error Object, which is left on the stack; env is the scope passed
Declare ==
    /\ status = "running"
    /\ \E scope \in 1..DeclDepth, k \in DeclKeys, d \in DeclValues :
          LET val == [cell |-> cells + 1, d |-> d]
              r == declare_var(scope, String(k), val, objects, arrays)
          IN  /\ env' = scope
              /\ IF r.ok
                 THEN /\ objects' = r.objs
                      /\ cells' = cells + 1
                      /\ UNCHANGED <<stack, status>>
                 ELSE LET e == new_error(Heap, 0, r.msg)
                      IN  /\ objects' = e.objs
                          /\ cells' = e.cells + 1
                          /\ stack' = <<[cell |-> e.cells + 1, d |-> e.d]>>
                          /\ status' = "done"
    /\ UNCHANGED <<code, constants, pc, funs, exec_stack, exception_stack,
                   cur_ins, functions, arrays, iterators, exit_code>>

DeclareNext == Declare

DeclareSpec == DeclareInit /\ [][DeclareNext]_vars

(***************************************************************************)
(* Vocabulary of the properties.                                           *)
(***************************************************************************)
\* the ValueData on the operand stack, bottom first
Results == [i \in 1..Len(stack) |-> stack[i].d]

\* an instruction is about to be dispatched
Running == status = "running" /\ pc < Len(code)

\* the Value in slot name of the own table of object r; r must have it
Slot(objs, r, name) ==
    objs[r].table[TableIndex(objs[r].table, String(name), objs, <<>>)].val

HasSlot(objs, r, name) == TableIndex(objs[r].table, String(name), objs, <<>>) # 0

\* d is an Object with own slots line, file and error (a String) whose
\* prototype has __name__ = "JLRuntimeError"
IsRuntimeError(d, objs) ==
    /\ d.t = "Object"
    /\ HasSlot(objs, d.ref, "line")
    /\ HasSlot(objs, d.ref, "file")
    /\ HasSlot(objs, d.ref, "error")
    /\ Slot(objs, d.ref, "error").d.t = "String"
    /\ objs[d.ref].proto # 0
    /\ HasSlot(objs, objs[d.ref].proto, "__name__")
    /\ Slot(objs, objs[d.ref].proto, "__name__").d = String("JLRuntimeError")

\* the message of a runtime error Object
ErrorMessage(d, objs) == Slot(objs, d.ref, "error").d.s

StartsWith(str, prefix) ==
    Len(str) >= Len(prefix) /\ SubSeq(str, 1, Len(prefix)) = prefix

\* the failures of section 4.4.2, as conditions on the state in which the
\* instruction is dispatched
StackFault == Running /\ Len(stack) < Needs(Ins)

UndeclaredFault ==
    Running /\ Ins.op = "LoadVar" /\ FindScope(env, String(Ins.s), objects, arrays) = 0

ApplyArgFault ==
    Running /\ Ins.op = "Apply" /\ Len(stack) >= 2 /\ stack[Len(stack) - 1].d.t # "Array"

CalleeFault ==
    /\ Running /\ ~StackFault /\ ~ApplyArgFault
    /\ Ins.op \in {"Call", "Apply"}
    /\ Last(stack).d.t # "Function"

NewIterFault ==
    /\ Running /\ Ins.op = "NewIter" /\ stack # <<>>
    /\ Last(stack).d.t \notin {"Object", "Array", "Iterator"}

IterOperandFault ==
    /\ Running /\ Ins.op \in {"IterHasNext", "IterNext"} /\ stack # <<>>
    /\ Last(stack).d.t # "Iterator"

InitEnvFault ==
    Running /\ Ins.op = "InitEnv" /\ stack # <<>> /\ Last(stack).d.t # "Function"

YieldFault == Running /\ Ins.op = "Yield" /\ stack # <<>> /\ funs = <<>>

\* control went to the handler registered last, which was removed
TransferredToHandler ==
    /\ status' = "running"
    /\ exception_stack' = Front(exception_stack)
    /\ pc' = Last(exception_stack)
    /\ stack' # <<>>

(***************************************************************************)
(* C1.  Save/restore is balanced: whenever execute returns (PC ran past    *)
(* the end of the code, or Return found the save-stack empty), the         *)
(* save-stack and the active-functions stack are empty.  The code leaves   *)
(* the yielding Function on the active-functions stack.                    *)
(***************************************************************************)
C1_BalancedAtHalt == status = "done" => (exec_stack = <<>> /\ funs = <<>>)

(***************************************************************************)
(* C2.  Generator resumption, scenario S4: n successive top-level Calls of *)
(* g (yield 10, yield 20, return 30) push 10, 20, 30, 10, ... in that      *)
(* order; each Call enters g at its entry address the first time and after *)
(* a Return, and at the instruction following the last Yield otherwise.    *)
(***************************************************************************)
GValue(i) == <<10, 20, 30>>[((i - 1) % 3) + 1]

GResume(k) == <<GAddr, GAddr + 2, GAddr + 4>>[(k % 3) + 1]

OnlyG(n) == [i \in 1..n |-> "g"]

C2_GeneratorResumption ==
    \A n \in 1..MaxCalls :
        code = CallProgram(OnlyG(n)).code =>
            /\ status = "done" => Results = [i \in 1..n |-> Number(GValue(i))]
            /\ (status = "running" /\ cur_ins.op = "Call") => pc = GResume(Len(stack))

C2_Witness ==
    /\ code = CallProgram(<<"g", "g", "g", "g">>).code
    /\ status = "done"
    /\ Results = <<Number(10), Number(20), Number(30), Number(10)>>

(***************************************************************************)
(* C3.  After g has yielded, the next Call of g resumes it where that      *)
(* Yield left it, whatever Calls and Returns of other Functions happen in  *)
(* between: in every program of the call family the i-th activation of g   *)
(* (called from main or from f) produces the i-th value of 10, 20, 30,     *)
(* 10, ... and every call of h produces 5.  The code restarts g after the  *)
(* Return of an f that called it.                                          *)
(***************************************************************************)
\* the number of activations of g among the first i calls
GCalls(calls, i) == Cardinality({j \in 1..i : calls[j] \in {"f", "g"}})

Expected(calls) ==
    [i \in 1..Len(calls) |->
        IF calls[i] = "h" THEN Number(5) ELSE Number(GValue(GCalls(calls, i)))]

C3_ResumeAfterOtherCalls ==
    status = "done" =>
        \A c \in CallSequences : code = CallProgram(c).code => Results = Expected(c)

(***************************************************************************)
(* C4.  As claimed: push(a); push(b); OP leaves a OP b (the operand pushed *)
(* first is the left-hand side), and LoadInt 10; LoadInt 3; Sub leaves 7.  *)
(***************************************************************************)
\* a program push(a); push(b); OP has run to its end
BinaryDone ==
    /\ status = "done"
    /\ Len(code) = 3
    /\ code[1] = OpA("LoadConst", 0)
    /\ code[2] = OpA("LoadConst", 1)
    /\ code[3].op \in BinaryOps

C4_FirstPushedIsLhs ==
    /\ BinaryDone =>
          Results = <<BinaryResult(code[3].op, constants[1], constants[2], objects, arrays).d>>
    /\ (status = "done" /\ code = S1Sub.code) => Results = <<Number(7)>>

(***************************************************************************)
(* C4, amended.  push(a); push(b); OP leaves b OP a: the operand pushed    *)
(* last is the left-hand side.  On Numbers a and b, Sub leaves b - a, Div  *)
(* b / a, Rem b rem a, Shl b * 2^a, Shr floor(b / 2^a), and Lt, Le, Gt, Ge *)
(* compare b with a; Add with a String operand puts b's text first; and    *)
(* LoadInt 10; LoadInt 3; Sub leaves -7 while LoadInt 2; LoadInt 3; Add    *)
(* leaves 5.                                                               *)
(***************************************************************************)
\* b OP a on integers, for the operators that are not commutative
IntResult(op, a, b) ==
    CASE op = "Sub" -> Number(b - a)
      [] op = "Div" -> Rat(b, a)
      [] op = "Rem" -> (IF a = 0 THEN NaN
                        ELSE Number((IF b < 0 THEN -1 ELSE 1) * (Abs(b) % Abs(a))))
      [] op = "Shl" -> Number(b * Pow2(a))
      [] op = "Shr" -> Number(b \div Pow2(a))
      [] op = "Lt" -> Bool(b < a)
      [] op = "Le" -> Bool(b <= a)
      [] op = "Gt" -> Bool(b > a)
      [] op = "Ge" -> Bool(b >= a)

C4_LastPushedIsLhs ==
    /\ BinaryDone =>
          LET op == code[3].op
              a == constants[1]
              b == constants[2]
          IN  /\ Results = <<BinaryResult(op, b, a, objects, arrays).d>>
              /\ (a.t = "Number" /\ b.t = "Number"
                    /\ op \in {"Sub", "Div", "Rem", "Shl", "Shr", "Lt", "Le", "Gt", "Ge"})
                    => Results = <<IntResult(op, a.num, b.num)>>
              /\ (op = "Add" /\ a.t = "Number" /\ b.t = "String")
                    => Results = <<String(b.s \o ToString(a.num))>>
              /\ (op = "Add" /\ a.t = "String" /\ b.t = "Number")
                    => Results = <<String(ToString(b.num) \o a.s)>>
    /\ (status = "done" /\ code = S1Sub.code) => Results = <<Number(-7)>>
    /\ (status = "done" /\ code = S1Add.code) => Results = <<Number(5)>>

C4_Witness == status = "done" /\ code = S1Sub.code /\ Results = <<Number(-7)>>

(***************************************************************************)
(* C5.  Whenever a binary opcode is dispatched with two operands on the    *)
(* stack, the value on top (popped first) is the left-hand operand and the *)
(* value below it (popped second) the right-hand operand of the result     *)
(* that replaces them.                                                     *)
(***************************************************************************)
C5_FirstPoppedIsLhs ==
    [][(Running /\ Ins.op \in BinaryOps /\ Len(stack) >= 2) =>
          /\ Len(stack') = Len(stack) - 1
          /\ SubSeq(stack', 1, Len(stack) - 2) = SubSeq(stack, 1, Len(stack) - 2)
          /\ (/\ Last(stack).d.t = "Number"
               /\ stack[Len(stack) - 1].d.t = "Number"
               /\ Ins.op \in {"Sub", "Div", "Rem", "Shl", "Shr", "Lt", "Le", "Gt", "Ge"})
                 => Last(stack').d =
                       IntResult(Ins.op, stack[Len(stack) - 1].d.num, Last(stack).d.num)
          /\ Last(stack').d =
                BinaryResult(Ins.op, Last(stack).d, stack[Len(stack) - 1].d,
                             objects, arrays).d]_vars

C5_Witness ==
    /\ cur_ins.op = "Div"
    /\ constants = <<Number(1), Number(2)>>
    /\ Results = <<Number(2)>>

(***************************************************************************)
(* C6.  As claimed: whenever an instruction faults or Throw executes with  *)
(* a handler registered, exactly the handler registered last is removed,   *)
(* PC becomes its address and the exception Value is on top of the operand *)
(* stack, whichever instruction faulted; with no handler the program       *)
(* terminates.  The iterator opcodes abort on an operand that is no        *)
(* Iterator even with a handler registered (C9).                           *)
(***************************************************************************)
\* the instruction about to be dispatched fails
Faults ==
    \/ StackFault
    \/ UndeclaredFault
    \/ ApplyArgFault
    \/ CalleeFault
    \/ NewIterFault
    \/ IterOperandFault
    \/ InitEnvFault
    \/ YieldFault

\* the instruction about to be dispatched is a Throw
Throws == Running /\ Ins.op = "Throw"

\* the exception Value is on top of the next state's stack: the payload of a
\* Throw, the runtime error of a fault
ExceptionOnTop ==
    IF Throws
    THEN Last(stack').d = (IF stack # <<>> THEN Last(stack).d ELSE Undefined)
    ELSE IsRuntimeError(Last(stack').d, objects')

C6_ExceptionTransfer ==
    [][(Faults \/ Throws) =>
          IF exception_stack # <<>>
          THEN TransferredToHandler /\ ExceptionOnTop
          ELSE status' # "running"]_vars

(***************************************************************************)
(* C7.  As claimed: in scenario S5, after Throw of the String "oops" with  *)
(* the handler of PushCatch(100) registered, PC is 100 and the top of the  *)
(* operand stack is an error Value whose error slot equals "oops".         *)
(***************************************************************************)
\* scenario S5 has executed its Throw
S5Thrown == code = S5.code /\ cur_ins.op = "Throw"

C7_ThrowWrapsPayload ==
    S5Thrown =>
        /\ pc = 100
        /\ stack # <<>>
        /\ Last(stack).d.t = "Object"
        /\ HasSlot(objects, Last(stack).d.ref, "error")
        /\ Slot(objects, Last(stack).d.ref, "error").d = String("oops")

(***************************************************************************)
(* C7, amended.  In scenario S5, after Throw of the String "oops" with the *)
(* handler of PushCatch(100) registered, PC is 100, the handler is removed *)
(* and the top of the operand stack is the thrown String "oops" itself:    *)
(* Throw delivers its payload unwrapped, and no error Object is built.     *)
(***************************************************************************)
C7_ThrowDeliversPayload ==
    S5Thrown =>
        /\ pc >= 100
        /\ (status = "running" => pc = 100)
        /\ exception_stack = <<>>
        /\ Results = <<String("oops")>>
        /\ Len(objects) = 1

C7_Witness ==
    /\ S5Thrown
    /\ status = "running"
    /\ pc = 100
    /\ Results = <<String("oops")>>

(***************************************************************************)
(* C8.  As claimed: an uncaught exception raised by a failing operation    *)
(* exits with code 1 and an uncaught exception raised by the Throw opcode  *)
(* exits with code -1.                                                     *)
(***************************************************************************)
C8_ThrowExitsMinusOne ==
    status = "exit" =>
        exit_code = (IF cur_ins.op = "Throw" THEN <<-1>> ELSE <<1>>)

(***************************************************************************)
(* C8, amended.  With no handler registered, a failure of Frame::pop or of *)
(* an environment operation (stack underflow, undeclared variable) and an  *)
(* uncaught Throw opcode exit with code 1; a failed type check of the      *)
(* dispatcher (non-callable callee, non-Array Apply argument, invalid      *)
(* NewIter operand, InitEnv on a value that is no Function, Yield with no  *)
(* active Function) exits with code -1; normal termination returns from    *)
(* execute without an exit call.                                           *)
(***************************************************************************)
C8_ExitCodes ==
    [][(Running /\ exception_stack = <<>>) =>
          /\ (StackFault \/ UndeclaredFault \/ Throws)
                => (status' = "exit" /\ exit_code' = <<1>>)
          /\ (CalleeFault \/ ApplyArgFault \/ NewIterFault \/ InitEnvFault \/ YieldFault)
                => (status' = "exit" /\ exit_code' = <<-1>>)
          /\ status' \in {"running", "done"} => exit_code' = <<>>]_vars

C8_Witness ==
    /\ status = "exit"
    /\ cur_ins.op = "Throw"
    /\ exit_code = <<1>>
    /\ exception_stack = <<>>

(***************************************************************************)
(* C9.  As claimed: NewIter, IterHasNext or IterNext executed on a value   *)
(* that is not of the expected kind while a handler is registered          *)
(* transfers control to that handler with an error Value; the interpreter  *)
(* never aborts on such an operand.  IterHasNext and IterNext abort.       *)
(***************************************************************************)
C9_IteratorOperandCatchable ==
    [][((NewIterFault \/ IterOperandFault) /\ exception_stack # <<>>) =>
          /\ status' # "panic"
          /\ TransferredToHandler
          /\ Last(stack').d.t = "Object"]_vars

(***************************************************************************)
(* C10.  Every error raised by a failing operation (stack underflow,       *)
(* undeclared variable, non-callable callee, non-Array Apply argument,     *)
(* invalid NewIter operand) is an Object with own slots line, file and     *)
(* error (the message, a String) whose prototype is an Object with slot    *)
(* __name__ equal to "JLRuntimeError"; with a handler registered it is     *)
(* the Value delivered on top of the operand stack.                        *)
(***************************************************************************)
OperationFault ==
    StackFault \/ UndeclaredFault \/ CalleeFault \/ ApplyArgFault \/ NewIterFault

\* the message the failing instruction raises (for a stack underflow, the
\* part of it before the instruction's name)
FaultMessage ==
    IF StackFault THEN "Stack empty. Current instruction: "
    ELSE IF UndeclaredFault THEN "Variable '" \o Ins.s \o "' not declared"
    ELSE IF CalleeFault THEN "Runtime exception: function expected"
    ELSE IF ApplyArgFault THEN "Runtime exception: Array expected in apply"
    ELSE "Runtime exception: Array or object expected in iterator instance"

C10_ErrorPayload ==
    [][OperationFault =>
          /\ Len(objects') = Len(objects) + 2
          /\ IsRuntimeError(Object(Len(objects) + 1), objects')
          /\ StartsWith(ErrorMessage(Object(Len(objects) + 1), objects'), FaultMessage)
          /\ ~StackFault =>
                ErrorMessage(Object(Len(objects) + 1), objects') = FaultMessage
          /\ exception_stack # <<>> =>
                /\ stack' # <<>>
                /\ Last(stack').d = Object(Len(objects) + 1)]_vars

C10_Witness ==
    /\ status = "running"
    /\ cur_ins.op = "LoadVar"
    /\ stack # <<>>
    /\ IsRuntimeError(Last(stack).d, objects)
    /\ ErrorMessage(Last(stack).d, objects) = "Variable 'x' not declared"

(***************************************************************************)
(* C11.  As claimed: for JumpIf, JumpIfFalse, And and Or a Bool counts as  *)
(* itself, a Number as false exactly when its floor is zero, Nil and       *)
(* Undefined as false, and every other value (String, Object, Array,       *)
(* Function, Iterator) as true.  bool::from gives false for every value    *)
(* that is neither a Number nor a Bool.                                    *)
(***************************************************************************)
\* the truth value the specification assigns to d
Truthy(d) ==
    CASE d.t = "Bool" -> d.b
      [] d.t = "Number" -> (IF d.den = 0 THEN TRUE ELSE d.num \div d.den # 0)
      [] d.t \in {"Nil", "Undefined"} -> FALSE
      [] OTHER -> TRUE

C11_Truthiness ==
    [][/\ (Running /\ Ins.op \in {"JumpIf", "JumpIfFalse"} /\ stack # <<>>) =>
             pc' = (IF Truthy(Last(stack).d) = (Ins.op = "JumpIf") THEN Ins.a ELSE pc + 1)
       /\ (Running /\ Ins.op = "And" /\ Len(stack) >= 2) =>
             Last(stack').d = Bool(Truthy(Last(stack).d) /\ Truthy(stack[Len(stack) - 1].d))
       /\ (Running /\ Ins.op = "Or" /\ Len(stack) >= 2) =>
             Last(stack').d = Bool(Truthy(Last(stack).d) \/ Truthy(stack[Len(stack) - 1].d))
      ]_vars

(***************************************************************************)
(* C12.  As claimed: for every Value v of every kind (Nil, Undefined,      *)
(* Bool, Number, String, Object, Array, Function, Iterator), Eq applied to *)
(* v and v yields true and Ne yields false.                                *)
(***************************************************************************)
\* Eq or Ne is about to be applied to a Value and itself
ComparesWithItself ==
    /\ Running /\ Ins.op \in {"Eq", "Ne"}
    /\ Len(stack) >= 2
    /\ Last(stack).d = stack[Len(stack) - 1].d

C12_EqReflexive ==
    [][ComparesWithItself => Last(stack').d = Bool(Ins.op = "Eq")]_vars

(***************************************************************************)
(* C12, amended.  Eq applied to v and v yields true (and Ne false) exactly *)
(* when v is Nil, Undefined, a Bool, a String, a Number other than NaN, or *)
(* an Array or Object all of whose elements, keys, slot values and         *)
(* prototypes are such values.  For a Function, an Iterator, NaN and every *)
(* Array or Object containing one of them, Eq of v with itself yields      *)
(* false and Ne yields true.                                               *)
(***************************************************************************)
RECURSIVE EqualsItself(_, _, _)
EqualsItself(d, objs, arrs) ==
    CASE d.t \in {"Nil", "Undefined", "Bool", "String"} -> TRUE
      [] d.t = "Number" -> ~(d.den = 0 /\ d.num = 0)
      [] d.t = "Array" ->
            \A i \in 1..Len(arrs[d.ref]) : EqualsItself(arrs[d.ref][i].d, objs, arrs)
      [] d.t = "Object" ->
            /\ \A i \in 1..Len(objs[d.ref].table) :
                  /\ EqualsItself(objs[d.ref].table[i].key, objs, arrs)
                  /\ EqualsItself(objs[d.ref].table[i].val.d, objs, arrs)
            /\ objs[d.ref].proto # 0 => EqualsItself(Object(objs[d.ref].proto), objs, arrs)
      [] OTHER -> FALSE

C12_EqReflexiveOnData ==
    [][ComparesWithItself =>
          Last(stack').d = Bool(EqualsItself(Last(stack).d, objects, arrays) = (Ins.op = "Eq"))
      ]_vars

\* a Function compared with itself was found unequal, and so was an Array
\* holding it; here the former
C12_Witness ==
    /\ status = "done"
    /\ code = ReflexProgram(<<OpA("LoadConst", 0)>>, Function(1), "Eq").code
    /\ constants = <<Function(1)>>
    /\ Results = <<Bool(FALSE)>>

(***************************************************************************)
(* C13.  Two Arrays built by two separate ConstructArray executions from   *)
(* equal elements compare true under Eq and false under RefEq (and true    *)
(* under RefNeq); RefEq is true only when both operands are the same       *)
(* reference cell: a Value duplicated by Dup or loaded twice from one      *)
(* variable is RefEq to itself, two separately built Values never are,     *)
(* whether or not they are equal.                                          *)
(***************************************************************************)
C13_EqIsNotRefEq ==
    status = "done" =>
        /\ \A b1, b2 \in PairBuilders :
              /\ code = PairProgram(b1, b2, "Eq").code => Results = <<Bool(b1 = b2)>>
              /\ code = PairProgram(b1, b2, "Ne").code => Results = <<Bool(b1 # b2)>>
              /\ code = PairProgram(b1, b2, "RefEq").code => Results = <<Bool(FALSE)>>
              /\ code = PairProgram(b1, b2, "RefNeq").code => Results = <<Bool(TRUE)>>
        /\ \A b \in PairBuilders :
              /\ code \in {SameCellProgram(b, "RefEq").code, SameVarProgram(b, "RefEq").code}
                    => Results = <<Bool(TRUE)>>
              /\ code \in {SameCellProgram(b, "RefNeq").code, SameVarProgram(b, "RefNeq").code}
                    => Results = <<Bool(FALSE)>>

\* two Arrays [2, 1] built separately were found equal, and two more not RefEq
C13_Witness ==
    /\ status = "done"
    /\ code = PairProgram(ArrayBuilder(<<1, 2>>), ArrayBuilder(<<1, 2>>), "RefEq").code
    /\ Results = <<Bool(FALSE)>>
    /\ Len(arrays) = 2
    /\ DataEq(Array(1), Array(2), objects, arrays)

(***************************************************************************)
(* C14.  When a Regular callee executes Return, the constant pool, PC,     *)
(* environment, bytecode and operand stack become exactly the ones saved   *)
(* by the Call that entered it: PC is the instruction after that Call and  *)
(* the operand stack is the caller's stack as it was after the callee,     *)
(* this and the arguments were popped, whatever the callee pushed or       *)
(* popped; then the return value (Undefined if the callee's stack was      *)
(* empty) is pushed on top.  Stated as: Call saves exactly that state on   *)
(* top of the save-stack, no step changes what lies below the top of the   *)
(* save-stack, and Return restores the five saved items; and, for callees  *)
(* with code and constants of their own, by the state main ends in.        *)
(***************************************************************************)
\* the value a callee body returns to a caller that holds k values
Returned(k, body) ==
    CASE body = <<Op("Return")>> -> (IF k = 0 THEN Undefined ELSE Number(CallerValues(k)[k]))
      [] body[1] = OpA("LoadInt", 9) -> Number(IF Len(body) = 2 THEN 9 ELSE 8)
      [] OTHER -> Number(42)

C14_ReturnRestores ==
    [][/\ (Running /\ Ins.op = "Call" /\ Len(stack) >= 2 + Ins.a
              /\ Last(stack).d.t = "Function") =>
             exec_stack' = exec_stack \o
                 <<[k |-> "Stack", stack |-> SubSeq(stack, 1, Len(stack) - 2 - Ins.a)],
                   [k |-> "Code", code |-> code],
                   [k |-> "Env", env |-> env],
                   [k |-> "Pc", pc |-> pc + 1],
                   [k |-> "C", c |-> constants]>>
       /\ \/ exec_stack' = exec_stack
          \/ exec_stack' = SubSeq(exec_stack, 1, Len(exec_stack) - 5)
          \/ /\ Len(exec_stack') = Len(exec_stack) + 5
             /\ SubSeq(exec_stack', 1, Len(exec_stack)) = exec_stack
       /\ (Running /\ Ins.op = "Return" /\ exec_stack # <<>>) =>
             LET n == Len(exec_stack)
             IN  /\ n >= 5
                 /\ exec_stack' = SubSeq(exec_stack, 1, n - 5)
                 /\ constants' = exec_stack[n].c
                 /\ pc' = exec_stack[n - 1].pc
                 /\ env' = exec_stack[n - 2].env
                 /\ code' = exec_stack[n - 3].code
                 /\ Front(stack') = exec_stack[n - 4].stack
                 /\ Last(stack').d = (IF stack = <<>> THEN Undefined ELSE Last(stack).d)
                 /\ status' = "running"
       /\ \A k \in 0..2, argc \in 0..1, body \in CalleeBodies :
             LET p == RestoreProgram(k, argc, body)
             IN  (/\ code' = p.code /\ cur_ins' = OpA("LoadConst", 0) /\ pc' = Len(p.code)
                  /\ functions'[1].code = body) =>
                    /\ constants' = p.constants
                    /\ env' = 1
                    /\ Results' = [i \in 1..k |-> Number(CallerValues(k)[i])]
                                     \o <<Returned(k, body), Function(1)>>
      ]_vars

\* main holds 7 and 6; the callee pops the 6 with DeclVar, loads 42 from its
\* own pool and returns; main finds 7, 6 and 42 and its own pool
C14_Witness ==
    /\ status = "done"
    /\ code = RestoreProgram(2, 1, <<OpS("DeclVar", "y"), OpA("LoadConst", 0), Op("Return")>>).code
    /\ functions[1].code = <<OpS("DeclVar", "y"), OpA("LoadConst", 0), Op("Return")>>
    /\ Results = <<Number(7), Number(6), Number(42), Function(1)>>
    /\ env = 1
    /\ constants = <<Function(1)>>

(***************************************************************************)
(* C15.  Call(argc) pops the callee first, then this, then argc arguments. *)
(* For a Regular callee the i-th formal is bound to the i-th popped        *)
(* argument (the very cell that was popped), or to Undefined when fewer    *)
(* arguments were passed; _args is bound to an Array of all popped         *)
(* arguments in popping order and this to the popped receiver.  Every      *)
(* binding is made in the own table of the callee's captured environment,  *)
(* overwriting a binding there or declaring it; no other Object and no     *)
(* other binding changes, and the binding step raises no error.            *)
(***************************************************************************)
\* a Call is about to enter a Function with all its operands on the stack
EntersFunction ==
    /\ Running /\ Ins.op = "Call"
    /\ Len(stack) >= 2 + Ins.a
    /\ Last(stack).d.t = "Function"

C15_CallBindsArguments ==
    [][EntersFunction =>
          LET n == Len(stack)
              f == functions[Last(stack).d.ref]
              e == f.environment
              bound == {f.args[i] : i \in 1..Len(f.args)} \cup {"_args", "this"}
          IN  /\ status' = "running"
              /\ exception_stack' = exception_stack
              /\ stack' = SubSeq(stack, 1, n - 2 - Ins.a)
              /\ \A i \in 1..Len(f.args) :
                    /\ HasSlot(objects', e, f.args[i])
                    /\ IF i <= Ins.a
                       THEN Slot(objects', e, f.args[i]) = stack[n - 1 - i]
                       ELSE Slot(objects', e, f.args[i]).d = Undefined
              /\ HasSlot(objects', e, "_args")
              /\ Slot(objects', e, "_args").d.t = "Array"
              /\ arrays'[Slot(objects', e, "_args").d.ref] =
                    [i \in 1..Ins.a |-> stack[n - 1 - i]]
              /\ HasSlot(objects', e, "this")
              /\ Slot(objects', e, "this") = stack[n - 1]
              /\ \A r \in 1..Len(objects) : r # e => objects'[r] = objects[r]
              /\ Len(objects') = Len(objects)
              /\ objects'[e].proto = objects[e].proto
              /\ \A j \in 1..Len(objects[e].table) :
                    LET k == objects[e].table[j].key
                    IN  k.s \notin bound =>
                           /\ HasSlot(objects', e, k.s)
                           /\ Slot(objects', e, k.s) = objects[e].table[j].val
              /\ \A j \in 1..Len(objects'[e].table) :
                    \/ objects'[e].table[j].key.s \in bound
                    \/ HasSlot(objects, e, objects'[e].table[j].key.s)
      ]_vars

\* the second call, with one argument and receiver Nil, after a first call
\* with three arguments: a is 21, b is Undefined again, _args is [21]; the
\* a of the enclosing scope is still 0
C15_Witness ==
    /\ status = "done"
    /\ code = ArgsProgram(3, 1).code
    /\ Len(stack) = 3
    /\ stack[1].d.t = "Array"
    /\ [i \in 1..4 |-> arrays[stack[1].d.ref][i].d.t] = <<"Number", "Number", "Array", "Number">>
    /\ arrays[stack[1].d.ref][1].d = Number(13)
    /\ arrays[stack[1].d.ref][2].d = Number(12)
    /\ arrays[stack[1].d.ref][4].d = Number(99)
    /\ stack[2].d.t = "Array"
    /\ arrays[stack[2].d.ref][1].d = Number(21)
    /\ arrays[stack[2].d.ref][2].d = Undefined
    /\ [i \in 1..Len(arrays[arrays[stack[2].d.ref][3].d.ref]) |->
            arrays[arrays[stack[2].d.ref][3].d.ref][i].d] = <<Number(21)>>
    /\ arrays[stack[2].d.ref][4].d = Nil
    /\ stack[3].d = Number(0)

(***************************************************************************)
(* C16.  As claimed: Apply behaves like Call except that the arguments     *)
(* come from one popped Array and the receiver is Nil: for a Regular       *)
(* callee the formals are bound to the elements of the Array in order      *)
(* (Undefined when there are fewer), _args to an Array of them, and this   *)
(* to Nil; an argument operand that is no Array raises "Array expected in  *)
(* apply".  The code binds this to a new empty Object.                     *)
(***************************************************************************)
C16_ApplyReceiverIsNil ==
    [][/\ (Running /\ Ins.op = "Apply" /\ Len(stack) >= 2
              /\ stack[Len(stack) - 1].d.t = "Array" /\ Last(stack).d.t = "Function") =>
             LET n == Len(stack)
                 f == functions[Last(stack).d.ref]
                 e == f.environment
                 args == arrays[stack[n - 1].d.ref]
             IN  /\ status' = "running"
                 /\ exception_stack' = exception_stack
                 /\ stack' = SubSeq(stack, 1, n - 2)
                 /\ pc' = (IF f.yield_pos # <<>> THEN f.yield_pos[1] ELSE f.addr)
                 /\ \A i \in 1..Len(f.args) :
                       IF i <= Len(args)
                       THEN Slot(objects', e, f.args[i]) = args[i]
                       ELSE Slot(objects', e, f.args[i]).d = Undefined
                 /\ arrays'[Slot(objects', e, "_args").d.ref] = args
                 /\ Slot(objects', e, "this").d = Nil
       /\ (Running /\ Ins.op = "Apply" /\ Len(stack) >= 2
              /\ stack[Len(stack) - 1].d.t # "Array") =>
             /\ Len(objects') = Len(objects) + 2
             /\ ErrorMessage(Object(Len(objects) + 1), objects')
                   = "Runtime exception: Array expected in apply"
      ]_vars

(***************************************************************************)
(* C17.  InitEnv on a Regular Function installs as its captured            *)
(* environment a new, empty Object whose prototype is the environment      *)
(* current at the InitEnv, stores the current constant pool in the         *)
(* Function and pushes back a Value referring to the same Function; every  *)
(* execution creates a new environment Object; nothing else of the         *)
(* Function, no other Function and no existing Object changes.  InitEnv on *)
(* a value that is no Function raises "function expected".                 *)
(***************************************************************************)
C17_InitEnvCaptures ==
    [][/\ (Running /\ Ins.op = "InitEnv" /\ stack # <<>> /\ Last(stack).d.t = "Function") =>
             LET r == Last(stack).d.ref
                 new == functions'[r].environment
             IN  /\ new \notin 1..Len(objects)
                 /\ new \in 1..Len(objects')
                 /\ objects'[new].proto = env
                 /\ objects'[new].table = <<>>
                 /\ SubSeq(objects', 1, Len(objects)) = objects
                 /\ functions'[r].constants = constants
                 /\ functions' = [functions EXCEPT ![r].environment = new,
                                                   ![r].constants = constants]
                 /\ Front(stack') = Front(stack)
                 /\ Last(stack').d = Function(r)
                 /\ env' = env /\ constants' = constants
                 /\ status' = "running" /\ pc' = pc + 1
       /\ (Running /\ Ins.op = "InitEnv" /\ stack # <<>> /\ Last(stack).d.t # "Function") =>
             /\ functions' = functions
             /\ ErrorMessage(Object(Len(objects) + 1), objects')
                   = "Runtime exception: function expected"
             /\ IF exception_stack # <<>> THEN TransferredToHandler ELSE status' = "exit"
      ]_vars

\* the Function passed to the callee has the callee's constant pool and an
\* empty environment whose prototype is the callee's environment
C17_Witness ==
    /\ status = "done"
    /\ code = InitEnvInCallee.code
    /\ cur_ins.op = "Return"
    /\ functions[2].constants = <<Number(42)>>
    /\ functions[2].environment > 3
    /\ objects[functions[2].environment].proto = functions[1].environment
    /\ objects[functions[2].environment].table = <<>>
    /\ Results = <<Function(2)>>

(***************************************************************************)
(* C18.  Scenario S3: when a function f declares c = 0 and returns a       *)
(* nested function g that increments and returns c, successive Calls of    *)
(* that g return 1, 2, 3, ...: the program never fails, g's environment    *)
(* has f's environment as prototype and no c of its own, and after k calls *)
(* the c of f's environment holds k.                                       *)
(***************************************************************************)
\* a closure program is loaded (whichever code vector is current)
ClosureLoaded ==
    /\ Len(functions) = 2
    /\ functions[2].code = ClosureProgram(1).funcs[2].code

C18_ClosureCounts ==
    /\ ClosureLoaded => status \in {"running", "done"}
    /\ \A n \in 1..MaxCalls :
          (code = ClosureProgram(n).code /\ status = "done") =>
                  LET ef == functions[1].environment
                      eg == functions[2].environment
                  IN  /\ Results = [i \in 1..n |-> Number(i)]
                      /\ objects[eg].proto = ef
                      /\ objects[ef].proto = 1
                      /\ ~HasSlot(objects, eg, "c")
                      /\ ~HasSlot(objects, 1, "c")
                      /\ Slot(objects, ef, "c").d = Number(n)

C18_Witness ==
    /\ status = "done"
    /\ code = ClosureProgram(3).code
    /\ Results = <<Number(1), Number(2), Number(3)>>
    /\ Slot(objects, functions[1].environment, "c").d = Number(3)

(***************************************************************************)
(* C19.  Scope shadowing: a DeclVar executed between a PushEnv and its     *)
(* matching PopEnv creates the binding only in the pushed scope; after the *)
(* PopEnv the current environment is the same Object as before the         *)
(* PushEnv, an outer binding of the same name keeps its earlier value, and *)
(* a LoadVar of a name declared only in the popped scope raises "Variable  *)
(* 'x' not declared".                                                      *)
(***************************************************************************)
C19_ScopeShadowing ==
    [][/\ (Running /\ Ins.op = "DeclVar" /\ stack # <<>>) =>
             /\ Len(objects') = Len(objects)
             /\ \A r \in 1..Len(objects) : r # env => objects'[r] = objects[r]
             /\ objects'[env].proto = objects[env].proto
             /\ Slot(objects', env, Ins.s) = Last(stack)
             /\ env' = env
       /\ (Running /\ Ins.op = "PushEnv") =>
             /\ env' = Len(objects) + 1
             /\ objects' = Append(objects, [proto |-> env, table |-> <<>>])
       /\ (Running /\ Ins.op = "PopEnv" /\ objects[env].proto # 0) =>
             /\ env' = objects[env].proto
             /\ objects' = objects
       /\ \A o \in BOOLEAN, dp \in 1..2, v \in 1..MaxInt :
             (code' = ScopeProgram(o, dp, v).code /\ status' # "running") =>
                /\ env' = 1
                /\ cur_ins' = OpS("LoadVar", "x")
                /\ \A r \in 2..Len(objects') :
                      r <= 1 + dp => Slot(objects', r, "x").d = Number(v + r - 2)
                /\ IF o
                   THEN /\ status' = "done"
                        /\ Results' = <<Number(v + dp - 1), Number(5)>>
                        /\ Slot(objects', 1, "x").d = Number(5)
                   ELSE /\ status' = "exit"
                        /\ Results' = <<Number(v + dp - 1)>>
                        /\ ~HasSlot(objects', 1, "x")
                        /\ ErrorMessage(Object(Len(objects') - 1), objects')
                              = "Variable 'x' not declared"
      ]_vars

\* scenario S2: 1 is left on the stack and the LoadVar outside fails
C19_Witness ==
    /\ status = "exit"
    /\ code = ScopeProgram(FALSE, 1, 1).code
    /\ Results = <<Number(1)>>
    /\ env = 1
    /\ ErrorMessage(Object(Len(objects) - 1), objects) = "Variable 'x' not declared"

(***************************************************************************)
(* C20.  declare(O, k, v) fails with the error "Variable 'k' already       *)
(* declared" and leaves O's table unchanged when k is already a key of O's *)
(* own table; otherwise it inserts k -> v into O's own table only, even if *)
(* k is bound in a scope further up the prototype chain.                   *)
(***************************************************************************)
\* the call refused: an error Object with the message for k, no table of
\* the heap before the call changed
DeclareRefused(k) ==
    /\ status' = "done"
    /\ Len(stack') = 1
    /\ IsRuntimeError(stack'[1].d, objects')
    /\ ErrorMessage(stack'[1].d, objects') = "Variable '" \o k \o "' already declared"
    /\ \A r \in 1..Len(objects) : objects'[r] = objects[r]

\* the call inserted k at the back of the own table of scope and nowhere else
DeclareInserted(scope, k) ==
    /\ status' = "running"
    /\ stack' = stack
    /\ Len(objects') = Len(objects)
    /\ \A r \in 1..Len(objects) : r # scope => objects'[r] = objects[r]
    /\ objects'[scope].proto = objects[scope].proto
    /\ Len(objects'[scope].table) = Len(objects[scope].table) + 1
    /\ Front(objects'[scope].table) = objects[scope].table
    /\ Last(objects'[scope].table).key = String(k)
    /\ Last(objects'[scope].table).val.d \in DeclValues

C20_DeclareVar ==
    [][\E k \in DeclKeys :
          IF HasSlot(objects, env', k)
          THEN DeclareRefused(k)
          ELSE DeclareInserted(env', k)
      ]_vars

\* x was declared in the innermost scope although the scope above binds it,
\* and a second declaration of x in the innermost scope was refused
C20_Witness ==
    /\ code = <<>>
    /\ status = "done"
    /\ env = DeclDepth
    /\ \A r \in 1..DeclDepth : HasSlot(objects, r, "x")
    /\ ErrorMessage(stack[1].d, objects) = "Variable 'x' already declared"

(***************************************************************************)
(* C21.  assign(O, k, v) overwrites k in the nearest scope on O's          *)
(* prototype chain whose own table contains k and changes no other scope;  *)
(* when no scope on the chain contains k it fails with "Variable 'k' not   *)
(* declared" and changes nothing; lookup(O, k) resolves to that same       *)
(* nearest scope and fails the same way.                                   *)
(***************************************************************************)
\* the scopes from r up its prototype links
RECURSIVE ScopeChain(_, _)
ScopeChain(objs, r) ==
    IF objs[r].proto = 0 THEN <<r>> ELSE <<r>> \o ScopeChain(objs, objs[r].proto)

\* the first scope of the chain from r that has name as an own key, 0 if none
Nearest(objs, r, name) ==
    LET ch == ScopeChain(objs, r)
        hits == {i \in 1..Len(ch) : HasSlot(objs, ch[i], name)}
    IN  IF hits = {} THEN 0 ELSE ch[CHOOSE i \in hits : \A j \in hits : i <= j]

\* the entries of the own table of r other than name
OtherEntries(objs, r, name) ==
    {objs[r].table[i] : i \in {j \in 1..Len(objs[r].table) :
                                  objs[r].table[j].key # String(name)}}

\* the step failed with "Variable 'name' not declared" and changed no Object
NotDeclared(name) ==
    /\ \A q \in 1..Len(objects) : objects'[q] = objects[q]
    /\ IsRuntimeError(Object(Len(objects) + 1), objects')
    /\ ErrorMessage(Object(Len(objects) + 1), objects')
          = "Variable '" \o name \o "' not declared"
    /\ IF exception_stack # <<>>
       THEN /\ status' = "running"
            /\ pc' = Last(exception_stack)
            /\ Last(stack').d = Object(Len(objects) + 1)
       ELSE status' = "exit" /\ exit_code' = <<1>>

C21_AssignAndLookup ==
    [][/\ (Running /\ Ins.op = "StoreVar" /\ stack # <<>>) =>
             LET r == Nearest(objects, env, Ins.s)
             IN  IF r # 0
                 THEN /\ Slot(objects', r, Ins.s) = Last(stack)
                      /\ OtherEntries(objects', r, Ins.s) = OtherEntries(objects, r, Ins.s)
                      /\ Len(objects'[r].table) = Len(objects[r].table)
                      /\ objects'[r].proto = objects[r].proto
                      /\ Len(objects') = Len(objects)
                      /\ \A q \in 1..Len(objects) : q # r => objects'[q] = objects[q]
                      /\ status' = "running"
                      /\ stack' = Front(stack)
                 ELSE NotDeclared(Ins.s)
       /\ (Running /\ Ins.op = "LoadVar") =>
             LET r == Nearest(objects, env, Ins.s)
             IN  IF r # 0
                 THEN /\ stack' = Append(stack, Slot(objects, r, Ins.s))
                      /\ objects' = objects
                      /\ status' = "running"
                 ELSE NotDeclared(Ins.s)
      ]_vars

\* x is declared in the global scope and in the scope between: the
\* assignment two scopes down changed the one between, and both the failing
\* assignment and the failing lookup happened in other runs
C21_Witness ==
    /\ code = AssignProgram(TRUE, TRUE, FALSE).code
    /\ status = "done"
    /\ Results = <<Number(9), Number(5)>>
    /\ Slot(objects, 1, "x").d = Number(5)
    /\ Slot(objects, 2, "x").d = Number(9)
    /\ Slot(objects, 3, "y").d = Number(7)

(***************************************************************************)
(* C22.  PopEnv executed while the current environment has no prototype is *)
(* fatal: it aborts the interpreter and is never routed to a registered    *)
(* handler (the handler stack and PC are not used); when a prototype       *)
(* exists PopEnv makes that parent the current environment.                *)
(***************************************************************************)
C22_PopEnvFatal ==
    [][(Running /\ Ins.op = "PopEnv") =>
          IF objects[env].proto = 0
          THEN /\ status' = "panic"
               /\ exit_code' = <<>>
               /\ exception_stack' = exception_stack
               /\ pc' = pc + 1
               /\ stack' = stack
               /\ objects' = objects
               /\ env' = env
          ELSE /\ status' = "running"
               /\ env' = objects[env].proto
               /\ exception_stack' = exception_stack
               /\ stack' = stack
               /\ objects' = objects
      ]_vars

\* two handlers are registered, two scopes were pushed and popped, and the
\* third PopEnv aborted with both handlers still registered
C22_Witness ==
    /\ code = PopEnvProgram(2, 2).code
    /\ status = "panic"
    /\ cur_ins = Op("PopEnv")
    /\ Len(exception_stack) = 2
    /\ Last(exception_stack) # pc
    /\ env = 1
    /\ Len(objects) = 3

(***************************************************************************)
(* C23.  Load with key K on an Object traverses the prototype chain: if K  *)
(* is not in the Object's own table but is in the table of an Object       *)
(* reachable through its prototype links, Load returns that slot; it       *)
(* returns Undefined only when no Object on the chain has K.               *)
(***************************************************************************)
\* a Load is about to run on an Object target with a String key other than
\* "__proto__"
LoadsFromObject ==
    /\ Running
    /\ Ins.op = "Load"
    /\ Len(stack) >= 2
    /\ stack[Len(stack) - 1].d.t = "Object"
    /\ Last(stack).d.t = "String"
    /\ Last(stack).d.s # "__proto__"

C23_LoadTraversesChain ==
    [][LoadsFromObject =>
          LET r == Nearest(objects, stack[Len(stack) - 1].d.ref, Last(stack).d.s)
          IN  /\ status' = "running"
              /\ Len(stack') = Len(stack) - 1
              /\ IF r # 0
                 THEN Last(stack') = Slot(objects, r, Last(stack).d.s)
                 ELSE Last(stack').d = Undefined
      ]_vars

\* what Load does on an Object: the own table only
C23_LoadOwnTableOnly ==
    [][LoadsFromObject =>
          LET r == stack[Len(stack) - 1].d.ref
          IN  /\ status' = "running"
              /\ Len(stack') = Len(stack) - 1
              /\ IF HasSlot(objects, r, Last(stack).d.s)
                 THEN Last(stack') = Slot(objects, r, Last(stack).d.s)
                 ELSE Last(stack').d = Undefined
      ]_vars

(***************************************************************************)
(* C24.  Load or Store on an Array with a negative index or an index at or *)
(* beyond the array length is a runtime failure: it transfers control to   *)
(* the registered handler (or terminates the program when none is          *)
(* registered) and leaves the array unchanged; Load with the key "length"  *)
(* returns the element count.                                              *)
(***************************************************************************)
\* the Array target and the key of the Load or Store about to run
AccessTarget == IF Ins.op = "Load" THEN stack[Len(stack) - 1] ELSE stack[Len(stack) - 2]
AccessKey == IF Ins.op = "Load" THEN stack[Len(stack)] ELSE stack[Len(stack) - 1]

AccessesArray ==
    /\ Running
    /\ \/ Ins.op = "Load" /\ Len(stack) >= 2
       \/ Ins.op = "Store" /\ Len(stack) >= 3
    /\ AccessTarget.d.t = "Array"

\* the key is an integer outside 0 .. length - 1
OutOfRange ==
    /\ AccessesArray
    /\ AccessKey.d.t = "Number"
    /\ AccessKey.d.den = 1
    /\ \/ AccessKey.d.num < 0
       \/ AccessKey.d.num >= Len(arrays[AccessTarget.d.ref])

LoadsLength ==
    AccessesArray /\ Ins.op = "Load" /\ AccessKey.d = String("length")

C24_ArrayRangeFailure ==
    [][/\ OutOfRange =>
             /\ arrays' = arrays
             /\ IF exception_stack # <<>>
                THEN /\ status' = "running"
                     /\ pc' = Last(exception_stack)
                     /\ exception_stack' = Front(exception_stack)
                     /\ IsRuntimeError(Last(stack').d, objects')
                ELSE status' \in {"exit", "panic"}
       /\ LoadsLength =>
             /\ status' = "running"
             /\ Last(stack').d = Number(Len(arrays[AccessTarget.d.ref]))
      ]_vars

\* what the access does: the process aborts whether or not a handler is
\* registered, and "length" gives the element count
C24_ArrayRangePanics ==
    [][/\ OutOfRange =>
             /\ arrays' = arrays
             /\ status' = "panic"
             /\ exception_stack' = exception_stack
             /\ objects' = objects
       /\ LoadsLength =>
             /\ status' = "running"
             /\ Last(stack').d = Number(Len(arrays[AccessTarget.d.ref]))
      ]_vars

(***************************************************************************)
(* C25.  Store pops the value first, then the key, then the target (pushed *)
(* as object, key, value); after Store on an Object with key K (other than *)
(* "__proto__") and value V, a Load of K on the same Object returns a      *)
(* value structurally equal to V, and every other key of that Object keeps *)
(* its value and its position in the insertion order.                      *)
(***************************************************************************)
\* a Store is about to run on an Object target, with a key other than
\* "__proto__"
StoresIntoObject ==
    /\ Running
    /\ Ins.op = "Store"
    /\ Len(stack) >= 3
    /\ stack[Len(stack) - 2].d.t = "Object"
    /\ stack[Len(stack) - 1].d # String("__proto__")

\* the own table of the target of the Store, before and after it
TargetTable == objects[stack[Len(stack) - 2].d.ref].table
TargetTableAfter == objects'[stack[Len(stack) - 2].d.ref].table

\* the operands were taken as value, key, target, and the key now reads V
StoredValueReadsBack ==
    LET key == stack[Len(stack) - 1].d
        i == TableIndex(TargetTableAfter, key, objects', arrays')
    IN  /\ stack' = SubSeq(stack, 1, Len(stack) - 3)
        /\ status' = "running"
        /\ i # 0
        /\ TargetTableAfter[i].val.d = Last(stack).d
        /\ ObjectGet(stack[Len(stack) - 2].d.ref, key, objects', arrays', cells').val.d
              = Last(stack).d

C25_StoreKeepsPositions ==
    [][StoresIntoObject =>
          /\ StoredValueReadsBack
          /\ \A i \in 1..Len(TargetTable) :
                TargetTable[i].key # stack[Len(stack) - 1].d =>
                   /\ i <= Len(TargetTableAfter)
                   /\ TargetTableAfter[i] = TargetTable[i]
      ]_vars

\* what Store does to the order: the stored key becomes the last entry,
\* the other entries keep their values and their order among themselves
C25_StoreMovesKeyToBack ==
    [][StoresIntoObject =>
          /\ StoredValueReadsBack
          /\ Last(TargetTableAfter).key = stack[Len(stack) - 1].d
          /\ Front(TargetTableAfter)
                = SelectSeq(TargetTable, LAMBDA e : e.key # stack[Len(stack) - 1].d)
      ]_vars

(***************************************************************************)
(* C26.  Sharing semantics: when the same Object or Array is reachable     *)
(* through two names (two variables, a variable and a stack entry produced *)
(* by Dup, or a slot of another Object), a Store performed through one     *)
(* name is observed by a later Load through the other name.                *)
(***************************************************************************)
\* the run of an alias program is over
AliasRunOver ==
    status # "running" \/ (status = "running" /\ pc >= Len(code) /\ funs = <<>>)

C26_SharedMutation ==
    \A k \in {"Object", "Array"}, a \in {"vars", "dup", "slot"}, sw \in BOOLEAN :
        (code = AliasProgram(k, a, sw).code /\ AliasRunOver) =>
            /\ status \in {"running", "done"}
            /\ Results = <<Number(9)>>
            /\ Len(objects) = 1 + (IF k = "Object" THEN 1 ELSE 0)
                                + (IF a = "slot" THEN 1 ELSE 0)
            /\ Len(arrays) = IF k = "Array" THEN 1 ELSE 0

\* the Array stored in slot s of h was written through the variable p and
\* read through the slot
C26_Witness ==
    /\ code = AliasProgram("Array", "slot", FALSE).code
    /\ status = "done"
    /\ Results = <<Number(9)>>
    /\ Slot(objects, 2, "s").d = Array(1)
    /\ Slot(objects, 1, "p").d = Array(1)
    /\ Slot(objects, 2, "s").cell # Slot(objects, 1, "p").cell
    /\ arrays[1][1].d = Number(9)

(***************************************************************************)
(* C27.  NewIter over an Object produces one entry per key of the Object's *)
(* own table, in insertion order, each entry being a fresh Object with     *)
(* slots key and value; NewIter applied to an Iterator pushes back that    *)
(* same iterator so that elements already consumed are not produced again. *)
(***************************************************************************)
\* the keys of a sequence in the order of their first occurrence
RECURSIVE FirstOccurrences(_)
FirstOccurrences(keys) ==
    IF keys = <<>> THEN <<>>
    ELSE LET front == FirstOccurrences(Front(keys))
         IN  IF \E i \in 1..Len(front) : front[i] = Last(keys)
             THEN front ELSE Append(front, Last(keys))

NewIterOn(kind) ==
    Running /\ Ins.op = "NewIter" /\ stack # <<>> /\ Last(stack).d.t = kind

\* the iterator made by the step: one fresh two-slot Object per entry of the
\* table, in the order of the table
EntriesOfTable ==
    LET tb == objects[Last(stack).d.ref].table
        vals == iterators'[Len(iterators')]
    IN  /\ Len(iterators') = Len(iterators) + 1
        /\ Last(stack').d = Iterator(Len(iterators'))
        /\ Len(vals) = Len(tb)
        /\ Len(objects') = Len(objects) + Len(tb)
        /\ \A q \in 1..Len(objects) : objects'[q] = objects[q]
        /\ \A i \in 1..Len(tb) :
              /\ vals[i].d.t = "Object"
              /\ vals[i].d.ref > Len(objects)
              /\ \A j \in 1..Len(tb) : vals[j].d.ref = vals[i].d.ref => j = i
              /\ objects'[vals[i].d.ref].proto = 0
              /\ Len(objects'[vals[i].d.ref].table) = 2
              /\ Slot(objects', vals[i].d.ref, "key").d = tb[i].key
              /\ Slot(objects', vals[i].d.ref, "value") = tb[i].val

\* NewIter on an Iterator hands back the same iterator, nothing consumed
SameIterator ==
    /\ iterators' = iterators
    /\ objects' = objects
    /\ stack' = Append(Front(stack), [cell |-> cells', d |-> Last(stack).d])

\* the keys of the entries an iterator still holds
EntryKeys(vals, objs) == [i \in 1..Len(vals) |-> Slot(objs, vals[i].d.ref, "key").d.s]

C27_NewIterInsertionOrder ==
    [][/\ NewIterOn("Object") =>
             /\ EntriesOfTable
             /\ \A ks \in UNION {[1..n -> StoreKeys] : n \in 1..MaxStores} :
                   (/\ code = IterObjectProgram(ks).code
                    /\ constants = IterObjectProgram(ks).constants) =>
                      EntryKeys(iterators'[Len(iterators')], objects')
                         = FirstOccurrences(ks)
       /\ NewIterOn("Iterator") => SameIterator
      ]_vars

\* the entries follow the table, whose order is the order of the last Store
\* of each key
C27_NewIterFollowsTable ==
    [][/\ NewIterOn("Object") => EntriesOfTable
       /\ NewIterOn("Iterator") => SameIterator
      ]_vars

(***************************************************************************)
(* C28.  Scenario S6: for an iterator made by NewIter over the Array       *)
(* [7, 8, 9], the loop Dup; IterHasNext; JumpIfFalse end; IterNext yields  *)
(* 7, then 8, then 9; IterHasNext is true before each of these three       *)
(* IterNext and false after the third; each IterNext removes exactly one   *)
(* element from the front.                                                 *)
(***************************************************************************)
\* the Numbers on the operand stack, bottom first
Yielded == SelectSeq(Results, LAMBDA d : d.t = "Number")

\* an IterHasNext or IterNext is about to run on an iterator
OnIterator(o) ==
    Running /\ Ins.op = o /\ stack # <<>> /\ Last(stack).d.t = "Iterator"

C28_IterationS6 ==
    [][/\ OnIterator("IterHasNext") =>
             /\ Last(stack').d = Bool(Len(iterators[Last(stack).d.ref]) > 0)
             /\ iterators' = iterators
       /\ (OnIterator("IterNext") /\ iterators[Last(stack).d.ref] # <<>>) =>
             /\ Last(stack') = Head(iterators[Last(stack).d.ref])
             /\ iterators' = [iterators EXCEPT ![Last(stack).d.ref] = Tail(@)]
       /\ code = S6.code =>
             /\ OnIterator("IterNext") =>
                   /\ cur_ins = OpA("JumpIfFalse", Len(S6.code))
                   /\ iterators[1] # <<>>
                   /\ Yielded' = SubSeq(<<Number(7), Number(8), Number(9)>>,
                                        1, 4 - Len(iterators[1]))
             /\ (OnIterator("IterHasNext") /\ Yielded = <<Number(7), Number(8), Number(9)>>) =>
                   Last(stack').d = Bool(FALSE)
             /\ status' = "running" \/ (status' = "done" /\ status = "running")
             /\ status' = "done" =>
                   /\ Results' = <<Number(7), Number(8), Number(9), Iterator(1)>>
                   /\ iterators' = <<<<>>>>
                   /\ arrays'[1] = arrays[1] /\ Len(arrays[1]) = 3
      ]_vars

\* the loop of S6 is over: three turns yielded 7, 8, 9 and the fourth
\* IterHasNext was false
C28_Witness ==
    /\ code = S6.code
    /\ status = "done"
    /\ cur_ins = OpA("JumpIfFalse", Len(S6.code))
    /\ Yielded = <<Number(7), Number(8), Number(9)>>
    /\ iterators[1] = <<>>

(***************************************************************************)
(* C29.  A Yield executed when no Regular Function activation is in        *)
(* progress (the save-stack is empty, e.g. at top level) is a              *)
(* GeneratorStateMissing failure: it raises the catchable error "can not   *)
(* find function state" and changes no Function's yield_pos or yield_env,  *)
(* whatever calls, returns and yields happened earlier in the run.         *)
(***************************************************************************)
\* the step raised "can not find function state" through the handler stack
\* and left every Function as it was
StateMissingRaised ==
    /\ functions' = functions
    /\ IsRuntimeError(Object(Len(objects) + 1), objects')
    /\ ErrorMessage(Object(Len(objects) + 1), objects')
          = "Runtime exception: can not find function state"
    /\ IF exception_stack # <<>>
       THEN /\ status' = "running"
            /\ pc' = Last(exception_stack)
            /\ exception_stack' = Front(exception_stack)
            /\ Last(stack').d = Object(Len(objects) + 1)
       ELSE status' = "exit"

\* a Yield is about to run with an operand and an empty save-stack
YieldsOutsideActivation ==
    Running /\ Ins.op = "Yield" /\ stack # <<>> /\ exec_stack = <<>>

C29_YieldOutsideActivation ==
    [][YieldsOutsideActivation => StateMissingRaised]_vars

\* what Yield does with an empty save-stack: the failure is raised only
\* when no Function was ever left by a Yield; otherwise the Function that
\* yielded last gets the top-level position and the interpreter aborts
C29_YieldOutsideActivationByFuns ==
    [][YieldsOutsideActivation =>
          IF funs = <<>>
          THEN StateMissingRaised
          ELSE /\ status' = "panic"
               /\ functions'[Last(funs)].yield_pos = <<pc + 1>>
               /\ functions'[Last(funs)].yield_env = env
               /\ exception_stack' = exception_stack
      ]_vars

(***************************************************************************)
(* C30.  Every opcode that needs an operand (other than Return and Throw,  *)
(* which substitute Undefined) fails with a StackUnderflow error ("Stack   *)
(* empty. Current instruction: ...") routed through the handler stack when *)
(* the operand stack is empty; no opcode silently proceeds with a made-up  *)
(* operand.                                                                *)
(***************************************************************************)
\* the step raised the stack underflow error through the handler stack
UnderflowRaised ==
    /\ Len(objects') = Len(objects) + 2
    /\ IsRuntimeError(Object(Len(objects) + 1), objects')
    /\ StartsWith(ErrorMessage(Object(Len(objects) + 1), objects'),
                  "Stack empty. Current instruction: " \o Ins.op)
    /\ cells' > cells
    /\ IF exception_stack # <<>>
       THEN /\ status' = "running"
            /\ pc' = Last(exception_stack)
            /\ exception_stack' = Front(exception_stack)
            /\ stack' = <<[cell |-> cells', d |-> Object(Len(objects) + 1)]>>
       ELSE status' = "exit" /\ exit_code' = <<1>> /\ stack' = <<>>

\* an instruction is about to run with fewer operands than it takes
LacksOperands ==
    /\ Running
    /\ Ins.op \notin {"Return", "Throw"}
    /\ Len(stack) < OperandsNeeded(Ins)

C30_UnderflowIsRaised ==
    [][LacksOperands => UnderflowRaised]_vars

\* every instruction but Dup raises the underflow; Dup on an empty stack
\* pushes one new Undefined cell twice and goes on
C30_UnderflowExceptDup ==
    [][LacksOperands =>
          IF Ins.op = "Dup"
          THEN /\ status' = "running"
               /\ pc' = pc + 1
               /\ exception_stack' = exception_stack
               /\ objects' = objects
               /\ Results' = <<Undefined, Undefined>>
               /\ stack'[1].cell = stack'[2].cell
          ELSE UnderflowRaised
      ]_vars

\* ---------------------------------------------------------------------
\* C31  ConstructArray(n) pops exactly n values and builds a new Array of
\* length n whose element i is the i-th value popped (the top of the stack
\* becomes element 0); with fewer than n values on the stack it raises the
\* stack underflow error.  The literal [7, 8, 9] of S6 is built by pushing
\* 9, 8, 7.
BuildsArray == Running /\ Ins.op = "ConstructArray"

C31_ConstructArray ==
    [][BuildsArray =>
          IF Len(stack) >= Ins.a
          THEN /\ status' = "running"
               /\ pc' = pc + 1
               /\ Len(stack') = Len(stack) - Ins.a + 1
               /\ SubSeq(stack', 1, Len(stack) - Ins.a) = SubSeq(stack, 1, Len(stack) - Ins.a)
               /\ Len(arrays') = Len(arrays) + 1
               /\ SubSeq(arrays', 1, Len(arrays)) = arrays
               /\ Last(stack').d = Array(Len(arrays'))
               /\ Len(Last(arrays')) = Ins.a
               /\ \A i \in 1..Ins.a : Last(arrays')[i] = stack[Len(stack) + 1 - i]
               /\ code = S6.code => [i \in 1..3 |-> Last(arrays')[i].d]
                                       = <<Number(7), Number(8), Number(9)>>
          ELSE UnderflowRaised /\ arrays' = arrays
      ]_vars

\* the array of S6 has just been built from the pushes 9, 8, 7
C31_Witness ==
    /\ code = S6.code
    /\ cur_ins = OpA("ConstructArray", 3)
    /\ pc = 4
    /\ Results = <<Array(1)>>
    /\ [i \in 1..3 |-> arrays[1][i].d] = <<Number(7), Number(8), Number(9)>>

\* ---------------------------------------------------------------------
\* C32  A type mismatch in a binary operator never raises an error: the
\* instruction completes and pushes Undefined for Sub, Mul, Div, Rem, Shl,
\* Shr, BitAnd, BitOr, BitXor unless both operands are Numbers, Undefined
\* for Add unless it is Number+Number, Array+Array or has a String operand,
\* and false for Lt, Le, Gt, Ge whenever the operands are not of the same
\* ordered type.
NumericOps == {"Sub", "Mul", "Div", "Rem", "Shl", "Shr", "BitAnd", "BitOr", "BitXor"}

OrderOps == {"Lt", "Le", "Gt", "Ge"}

OrderedTypes == {"Number", "Array", "Object", "String", "Bool"}

\* a binary operator is about to run on two operands
AppliesOperator == Running /\ Ins.op \in BinaryOps /\ Len(stack) >= 2

LhsType == stack[Len(stack)].d.t

RhsType == stack[Len(stack) - 1].d.t

AddDefined ==
    \/ LhsType = "Number" /\ RhsType = "Number"
    \/ LhsType = "Array" /\ RhsType = "Array"
    \/ LhsType = "String" \/ RhsType = "String"

C32_TypeMismatch ==
    [][AppliesOperator =>
          /\ status' = "running"
          /\ pc' = pc + 1
          /\ exception_stack' = exception_stack
          /\ objects' = objects
          /\ Len(stack') = Len(stack) - 1
          /\ Ins.op \in NumericOps =>
                IF LhsType = "Number" /\ RhsType = "Number"
                THEN Last(stack').d.t = "Number"
                ELSE Last(stack').d = Undefined
          /\ Ins.op = "Add" => (Last(stack').d = Undefined <=> ~AddDefined)
          /\ (Ins.op \in OrderOps /\ ~(LhsType = RhsType /\ LhsType \in OrderedTypes)) =>
                Last(stack').d = Bool(FALSE)
      ]_vars

\* Sub has just produced Undefined from a Number and a Nil
C32_Witness ==
    /\ code = BinaryProgram("Sub", Nil, Number(1)).code
    /\ constants = <<Nil, Number(1)>>
    /\ cur_ins = Op("Sub")
    /\ status = "running"
    /\ Results = <<Undefined>>

\* ---------------------------------------------------------------------
\* C33  Label is a no-op: executing it advances PC by one and changes
\* nothing else (operand stack, environment, save-stack, handler stack,
\* active-functions stack, heaps), so a program with a Label inserted and
\* its jump, handler and entry addresses adjusted ends with the same
\* operand stack as the program without it.
LabelStep == Running /\ Ins.op = "Label"

\* the loaded program is p, or p with one Label inserted
LabelledFrom(p) ==
    /\ constants = p.constants
    /\ \/ code = p.code
       \/ \E k \in 0..Len(p.code) : code = Labelled(p, k).code

\* the operand stack at the end of the run of p without any Label
LabelExpected(p) ==
    IF p = S6 THEN <<Number(7), Number(8), Number(9), Iterator(1)>>
    ELSE IF p = CallProgram(<<"g", "f">>) THEN <<Number(10), Number(20)>>
    ELSE <<String("oops")>>

C33_LabelNoOp ==
    [][/\ LabelStep =>
             /\ pc' = pc + 1
             /\ UNCHANGED <<stack, env, exec_stack, exception_stack, funs, code, constants,
                            objects, functions, arrays, iterators, cells, status, exit_code>>
       /\ \A p \in LabelBases :
             LabelledFrom(p) =>
                /\ status' \in {"running", "done"}
                /\ status' = "done" => Results' = LabelExpected(p)
      ]_vars

\* the run of the generator program with a Label at the entry of g is over
C33_Witness ==
    /\ code = Labelled(CallProgram(<<"g", "f">>), GAddr).code
    /\ code[GAddr + 1] = Op("Label")
    /\ functions[1].addr = GAddr
    /\ status = "done"
    /\ Results = <<Number(10), Number(20)>>

\* ---------------------------------------------------------------------
\* C34  An iterator is a snapshot: after NewIter over an Array or an
\* Object, overwriting or adding entries of the source changes neither the
\* number nor the identity of the elements that IterHasNext and IterNext
\* produce afterwards.  Only an IterNext on an iterator changes it, by
\* taking its front element.
SnapshotRun == constants = SnapshotConstants /\ code \in {p.code : p \in SnapshotPrograms}

TakesFrom(i) ==
    /\ Running /\ Ins.op = "IterNext"
    /\ stack # <<>> /\ Last(stack).d = Iterator(i)
    /\ iterators[i] # <<>>
    /\ iterators'[i] = Tail(iterators[i])
    /\ Last(stack') = Head(iterators[i])

C34_IteratorSnapshot ==
    [][/\ Len(iterators') >= Len(iterators)
       /\ \A i \in 1..Len(iterators) : iterators'[i] = iterators[i] \/ TakesFrom(i)
       /\ (Running /\ Ins.op = "Store") => iterators' = iterators
       /\ SnapshotRun =>
             /\ \A i \in 1..Len(iterators) : \A k \in 1..Len(iterators[i]) :
                   iterators[i][k].d.t = "Object" =>
                       objects'[iterators[i][k].d.ref] = objects[iterators[i][k].d.ref]
             /\ status' \in {"running", "done"}
             /\ status' = "done" => Results' = <<Number(1), Number(2), Bool(FALSE)>>
      ]_vars

\* the Array's first element was overwritten with 9 right after NewIter, and
\* the iterator has then produced the two original elements and no third
C34_Witness ==
    /\ code = SnapshotProgram("Array", "first", 0).code
    /\ status = "done"
    /\ arrays[1][1].d = Number(9)
    /\ iterators[1] = <<>>
    /\ Results = <<Number(1), Number(2), Bool(FALSE)>>

\* ---------------------------------------------------------------------
\* C35  In every reachable state with a non-empty save-stack, the Function
\* on top of the active-functions stack is the Function whose Call pushed
\* the topmost saved state, i.e. the Function whose body is executing; so a
\* Yield or Return updates the yield state of the Function that executes it.
\* In the programs of the call family the body that is executing is told by
\* PC: g, f and h are Functions 1, 2 and 3.
CallFamilyRun == \E c \in CallSequences : code = CallProgram(c).code

ExecutingFunction ==
    IF pc \in GAddr..(FAddr - 1) THEN 1
    ELSE IF pc \in FAddr..(HAddr - 1) THEN 2
    ELSE IF pc \in HAddr..(MainAddr - 1) THEN 3
    ELSE 0

C35_FunsTopIsExecuting ==
    (CallFamilyRun /\ status = "running" /\ exec_stack # <<>>) =>
        /\ ExecutingFunction # 0
        /\ funs # <<>>
        /\ Last(funs) = ExecutingFunction

\* what the code keeps: the top of the active-functions stack is the
\* Function entered last that has not returned.  A Call or Apply of a
\* Function pushes it together with a saved state, a Return pops both, and a
\* Yield pops the saved state only, so the Function that yielded stays on top
\* while its caller runs, and the caller's Return clears its yield position.
SavedEntries == Len(SavedState(<<>>, 0))

C35_FunsTopIsLastEntered ==
    [][/\ Len(funs) * SavedEntries >= Len(exec_stack)
       /\ Len(exec_stack') = Len(exec_stack) + SavedEntries =>
             /\ Ins.op \in {"Call", "Apply"}
             /\ funs' = Append(funs, stack[Len(stack)].d.ref)
       /\ (Running /\ Ins.op = "Yield" /\ Len(exec_stack') = Len(exec_stack) - SavedEntries) =>
             /\ funs' = funs
             /\ functions'[Last(funs)].yield_pos = <<pc + 1>>
       /\ (Running /\ Ins.op = "Return" /\ Len(exec_stack') = Len(exec_stack) - SavedEntries) =>
             /\ funs' = Front(funs)
             /\ functions'[Last(funs)].yield_pos = <<>>
      ]_vars

\* ---------------------------------------------------------------------
\* C36  A Function's yield_pos and yield_env are changed only by a Yield or
\* a Return executed by an activation of that same Function; a Return or
\* Yield executed by a different Function leaves them unchanged.
YieldStateChanged(i) ==
    \/ functions'[i].yield_pos # functions[i].yield_pos
    \/ functions'[i].yield_env # functions[i].yield_env

C36_YieldStateOwnWrites ==
    [][CallFamilyRun =>
          \A i \in 1..Len(functions) :
              YieldStateChanged(i) =>
                  /\ Running
                  /\ Ins.op \in {"Yield", "Return"}
                  /\ ExecutingFunction = i
      ]_vars

\* what the code keeps: the yield state is written by Yield and Return
\* only, and always that of the Function on top of the active-functions
\* stack, whichever Function executes the instruction
C36_YieldStateOfFunsTop ==
    [][\A i \in 1..Len(functions) :
          YieldStateChanged(i) =>
              /\ Running
              /\ Ins.op \in {"Yield", "Return"}
              /\ funs # <<>>
              /\ i = Last(funs)
      ]_vars

\* ---------------------------------------------------------------------
\* C37  When an error or a Throw transfers control to a handler, the
\* current bytecode, environment, constant pool and save-stack depth are
\* those that were current when the PushCatch that registered the handler
\* executed: an exception raised inside a callee and caught by a handler
\* registered in its caller discards the callee's saved state, so that the
\* handler address is interpreted in the caller's code.
\* the step pops the handler stack to transfer control
TransfersToHandler ==
    /\ Running
    /\ Ins.op # "PopCatch"
    /\ exception_stack # <<>>
    /\ exception_stack' = Front(exception_stack)

\* a program whose only handler is registered by main, at top level, with
\* the global environment current and an empty save-stack
CallerCatchRun ==
    /\ Len(functions) = 1
    /\ functions[1].code \in CallerCatchBodies
    /\ functions[1].constants = <<String("oops")>>

C37_HandlerInRegisteringContext ==
    [][(CallerCatchRun /\ TransfersToHandler) =>
          /\ pc' = 5
          /\ code' = CallerCatchMain
          /\ constants' = <<Function(1)>>
          /\ env' = 1
          /\ exec_stack' = <<>>
      ]_vars

\* what the code does: a transfer sets PC and pushes the error, and leaves
\* the bytecode, the constant pool, the environment, the save-stack and the
\* active-functions stack as they were at the failing instruction
C37_HandlerInFailingContext ==
    [][TransfersToHandler =>
          /\ pc' = Last(exception_stack)
          /\ code' = code
          /\ constants' = constants
          /\ env' = env
          /\ exec_stack' = exec_stack
          /\ funs' = funs
          /\ functions' = functions
      ]_vars

\* ---------------------------------------------------------------------
\* C38  The DeclVar opcode never raises the duplicate-declaration error:
\* when the name is already in the own table of the current scope it
\* overwrites that binding, otherwise it declares the name in the current
\* scope; either way the scopes further up the chain are unchanged, and the
\* only failure is the stack underflow.
Declares == Running /\ Ins.op = "DeclVar"

C38_DeclVarNeverDuplicate ==
    [][Declares =>
          IF stack = <<>>
          THEN UnderflowRaised
          ELSE /\ status' = "running"
               /\ pc' = pc + 1
               /\ exception_stack' = exception_stack
               /\ stack' = Front(stack)
               /\ env' = env
               /\ Len(objects') = Len(objects)
               /\ \A r \in 1..Len(objects) : r # env => objects'[r] = objects[r]
               /\ objects'[env].proto = objects[env].proto
               /\ Slot(objects', env, Ins.s) = Last(stack)
               /\ OtherEntries(objects', env, Ins.s) = OtherEntries(objects, env, Ins.s)
               /\ Len(objects'[env].table) =
                     IF HasSlot(objects, env, Ins.s)
                     THEN Len(objects[env].table)
                     ELSE Len(objects[env].table) + 1
      ]_vars

\* x was declared twice in a pushed scope below a scope that declares x:
\* the second declaration replaced the first, and the outer x is still 5
C38_Witness ==
    /\ code = RedeclareProgram(TRUE, FALSE, FALSE).code
    /\ status = "done"
    /\ Results = <<Number(2)>>
    /\ objects[env].proto = 1
    /\ Len(objects[env].table) = 2
    /\ Slot(objects, env, "x").d = Number(2)
    /\ Slot(objects, 1, "x").d = Number(5)

\* ---------------------------------------------------------------------
\* C39  All first-entry Calls of one Function value run in the same
\* environment Object, the one installed by InitEnv: no scope is created
\* per activation.  A variable declared by one activation is still bound,
\* with its last value, in the next one, and after a recursive Call returns
\* the outer activation reads the parameter, _args and this bindings written
\* by the inner Call.
FirstEntry == EntersFunction /\ functions[Last(stack).d.ref].yield_pos = <<>>

\* a program of the shared-environment family has been loaded
SharedEnvRun ==
    /\ Len(functions) = 1
    /\ functions[1].code \in {KeepsVariableBody, RecursionBody}

C39_SharedActivationEnv ==
    [][/\ FirstEntry =>
             /\ env' = functions[Last(stack).d.ref].environment
             /\ pc' = functions[Last(stack).d.ref].addr
             /\ Len(objects') = Len(objects)
             /\ functions' = functions
       /\ (SharedEnvRun /\ Running /\ Ins.op = "InitEnv") =>
             /\ functions'[1].environment = Len(objects) + 1
             /\ objects'[Len(objects) + 1] = [proto |-> env, table |-> <<>>]
       /\ (SharedEnvRun /\ FirstEntry) =>
             /\ env' = 3
             /\ objects[3].proto = 1
       /\ (SharedEnvRun /\ status' # "running") =>
             /\ status' = "done"
             /\ functions[1].code = KeepsVariableBody =>
                   /\ Results' = <<Number(0), Number(7)>>
                   /\ Slot(objects', 3, "v").d = Number(7)
             /\ functions[1].code = RecursionBody =>
                   /\ Len(stack') = 1
                   /\ Last(stack').d.t = "Array"
                   /\ [i \in 1..3 |-> arrays'[Last(stack').d.ref][i].d]
                         = <<Nil, Bool(FALSE), Number(0)>>
                   /\ Slot(objects', 3, "a").d = Bool(FALSE)
                   /\ Slot(objects', 3, "this").d = Nil
                   /\ [i \in 1..1 |-> arrays'[Slot(objects', 3, "_args").d.ref][i].d]
                         = <<Bool(FALSE)>>
      ]_vars

\* the outer activation f(true), called with receiver 99, has returned what
\* it read after its recursive call f(false) with receiver Nil: this = Nil
\* and a = false
C39_Witness ==
    /\ SharedEnvRun
    /\ functions[1].code = RecursionBody
    /\ status = "done"
    /\ Len(stack) = 1
    /\ Last(stack).d.t = "Array"
    /\ [i \in 1..3 |-> arrays[Last(stack).d.ref][i].d] = <<Nil, Bool(FALSE), Number(0)>>

\* ---------------------------------------------------------------------
\* C40  A faulting instruction is not rolled back: when Store, Call, Apply,
\* ConstructArray or a binary operator fails after it has popped some of
\* its operands, those operands stay removed.  At handler entry the operand
\* stack is the stack that remained at the moment of the fault with the
\* error Value pushed on top, and the environment, the save-stack and the
\* active-functions stack are unchanged by the transfer.
MultiOperandOps == {"Store", "Call", "Apply", "ConstructArray"} \cup BinaryOps

\* the operand stack at the moment the instruction fails: empty when it ran
\* out of operands, otherwise what lies below the operands of Call or Apply
RemainingAtFault ==
    IF Len(stack) < OperandsNeeded(Ins) THEN <<>>
    ELSE IF Ins.op = "Call" THEN SubSeq(stack, 1, Len(stack) - 2 - Ins.a)
    ELSE SubSeq(stack, 1, Len(stack) - 2)

C40_FaultNotRolledBack ==
    [][(TransfersToHandler /\ Ins.op \in MultiOperandOps) =>
          /\ status' = "running"
          /\ pc' = Last(exception_stack)
          /\ stack' # <<>>
          /\ Front(stack') = RemainingAtFault
          /\ IsRuntimeError(Last(stack').d, objects')
          /\ Last(stack').cell > cells
          /\ env' = env
          /\ exec_stack' = exec_stack
          /\ funs' = funs
      ]_vars

\* a Call of a non-Function with 7 below its operands failed under a
\* handler: the receiver and the callee are gone, 7 remains below the error
C40_Witness ==
    /\ code = FaultProgram(1, <<OpA("LoadInt", 7), Op("LoadNil"), OpA("LoadInt", 1),
                                OpA("Call", 0)>>).code
    /\ cur_ins = OpA("Call", 0)
    /\ exception_stack = <<>>
    /\ status = "running"
    /\ Len(stack) = 2
    /\ stack[1].d = Number(7)
    /\ IsRuntimeError(stack[2].d, objects)

====
